---- MODULE Spec2Model ----
(***************************************************************************)
(* A model of libwebnovel: the HTTP fetch layer (src/utils.rs), the        *)
(* Backend trait with its per-site implementations (src/backends/) and the *)
(* Chapter text format (src/lib.rs).                                       *)
(*                                                                         *)
(* Each component has its own specification over the module's variables:   *)
(*   SpecGet / SpecGetFair   one call of utils::get                        *)
(*   SpecBackend             get_chapter / get_chapters on one backend     *)
(*   SpecCodec               Chapter::to_string followed by from_str       *)
(*   SpecParse               Chapter::from_str on texts of any make        *)
(*   SpecConstruct           Backends::new(url) and <Backend>::new(url)    *)
(*   SpecOrder               chapters compared and sorted by an ordering   *)
(*                           function                                      *)
(*   SpecList                get_chapter_list / get_chapter_count          *)
(*   SpecIdent               immutable_identifier                          *)
(*   SpecFib                 FibonacciIterator on its own                  *)
(* A specification leaves the variables of the other components at their   *)
(* idle values.                                                            *)
(***************************************************************************)
EXTENDS Integers, Sequences, FiniteSets, TLC

VARIABLES
    \* ---- utils::get (one call) ----
    gpc,          \* "idle" | "loop" | "done": position in get()
    fib,          \* the FibonacciIterator local: [next, current]
    requests,     \* HTTP requests sent by this call (saturates at MaxRequests)
    n429,         \* responses with status 429 seen by this call
    lastStatus,   \* status of the last response, 0 when none / transport error
    waits,        \* the sleeps performed, in seconds, in order
    result,       \* "none" | "ok" | "err_rate_limit" | "err_net"
    \* ---- one backend instance and the operation running on it ----
    kind,         \* which Backend implementation the instance is
    burl,         \* its url field
    count,        \* chapter links in its listing snapshot
    bop,          \* "none" | "get_chapter" | "get_chapters": the operation called
    barg,         \* the chapter_number given to get_chapter
    bpc,          \* "idle" | "loop" | "done" | "no_return"
    bi,           \* get_chapters: the loop variable i
    acc,          \* get_chapters: the local Vec chapters
    calls,        \* the get_chapter calls made: [n, ret], in order
    fetched,      \* chapter numbers whose page was requested over HTTP, in order
    bret,         \* what the operation returned
    \* ---- one Chapter written with to_string and read back with from_str ----
    chap,         \* the Chapter
    cpc,          \* "start" | "encoded" | "decoded"
    text,         \* chap.to_string()
    decoded,      \* Chapter::from_str(text)
    \* ---- one construction: Backends::new(url) or <Backend>::new(url) ----
    durl,         \* the url given
    dvia,         \* "none" | "Backends::new" | "new": the function called
    dvi,          \* Backends::new: position of the loop in Backends::iter()
    dwalk,        \* Backends::new: the variants whose patterns were tested
    dkind,        \* the kind whose constructor runs, "none" before
    dpc,          \* "idle" | "walk" | "fetch1" | "fetch2" | "done"
    dctors,       \* the kinds whose constructor was called, in order
    dsent,        \* the calls of utils::get made by the constructor: [path, outcome]
    dret,         \* what the function returned
    \* ---- chapters compared and sorted with an ordering function ----
    okind,        \* the backend whose get_ordering_function() is used
    oin,          \* the chapters, in the order given
    opc,          \* "start" | "compared" | "sorted"
    ocmp,         \* the comparisons made: [a, b, ordering]
    oout,         \* the Vec after sort_by
    \* ---- one backend instance, its site, and its listing and identifier ----
    skind,        \* which Backend implementation the instance is
    surl,         \* its url field
    spage,        \* the listing page it holds since its construction
    ssite,        \* the site: the listing pages 2.. and what it answers beyond
    sbuild,       \* "debug" | "release": whether usize arithmetic is checked
    sop,          \* "none" | "list" | "count": the call under way
    spc,          \* "idle" | "loop" | "done"
    sidx,         \* get_chapter_list: the local i
    scnt,         \* get_chapter_list: the local chapter_pages_count
    scur,         \* get_chapter_list: the local current_page
    sacc,         \* get_chapter_list: the local chapters
    sreqs,        \* the listing pages requested over HTTP, in order
    slist,        \* what get_chapter_list() returned
    scount,       \* what get_chapter_count() returned
    sident,       \* what immutable_identifier() returned
    stwin,        \* a second instance with the same url: its page, its identifier
    \* ---- FibonacciIterators ----
    fits          \* the iterators made so far, each with what it yielded last

getVars == <<gpc, fib, requests, n429, lastStatus, waits, result>>

backendVars == <<kind, burl, count, bop, barg, bpc, bi, acc, calls, fetched, bret>>

codecVars == <<chap, cpc, text, decoded>>

dispVars == <<durl, dvia, dvi, dwalk, dkind, dpc, dctors, dsent, dret>>

orderVars == <<okind, oin, opc, ocmp, oout>>

siteVars ==
    <<skind, surl, spage, ssite, sbuild, sop, spc, sidx, scnt, scur, sacc, sreqs,
      slist, scount, sident, stwin>>

fibVars == <<fits>>

vars == <<getVars, backendVars, codecVars, dispVars, orderVars, siteVars, fibVars>>

-----------------------------------------------------------------------------
(* Bounds of the model *)

\* The request counter of one get() call saturates here (the loop of get()
\* itself has no bound on the number of requests).
MaxRequests == 13

\* The listing snapshot of a backend holds at most this many chapters.
MaxChapters == 3

\* Chapters written and read back: the largest index, the longest title and
\* content (in tokens), the longest url, the most metadata entries.
MaxIndex == 10
MaxTitleLen == 2
MaxContentLen == 2
MaxUrlLen == 1
MaxMeta == 1

\* A text given to from_str has at most this many lines after "metadata:".
MaxBlockLines == 3

\* A url given to a constructor is made of at most this many pieces.
MaxUrlPieces == 2

\* At most this many chapters are sorted at once.
MaxSort == 3

\* A listing page holds at most this many entries.
MaxEntries == 1

\* A site has at most this many listing pages.
MaxPages == 2

\* A fiction url has at most this many tokens after its fixed start.
MaxTail == 4

\* Each FibonacciIterator is asked for at most this many values.
MaxCalls == 96

\* The content div of a text read by from_str has at most this many lines.
MaxBodyLines == 3

-----------------------------------------------------------------------------
(* utils.rs: FibonacciIterator *)

FibonacciIterator_new == [next |-> 1, current |-> 0]

\* Iterator::next: the value returned ...
FibValue(it) == it.current

\* ... and the iterator afterwards.
FibAdvance(it) == [next |-> it.next + it.current, current |-> it.next]

-----------------------------------------------------------------------------
(* utils.rs: get *)

\* The statuses the server answers with; a transport failure is a separate
\* outcome of send().
Statuses == {200, 404, 429, 500}

TOO_MANY_REQUESTS == 429

WaitCeiling == 60

is_success(status) == status >= 200 /\ status <= 299

Bump(n) == IF n < MaxRequests THEN n + 1 ELSE n

RECURSIVE SumSeq(_)
SumSeq(s) == IF s = <<>> THEN 0 ELSE Head(s) + SumSeq(Tail(s))

\* Total time slept by the call so far.
slept == SumSeq(waits)

\* No call of get is under way.
GetIdle ==
    /\ gpc = "idle"
    /\ fib = FibonacciIterator_new
    /\ requests = 0
    /\ n429 = 0
    /\ lastStatus = 0
    /\ waits = <<>>
    /\ result = "none"

\* No Chapter is being written or read.
CodecIdle ==
    /\ chap = <<>>
    /\ cpc = "start"
    /\ text = <<>>
    /\ decoded = [kind |-> "none"]

\* No backend instance is in use.
BackendIdle ==
    /\ kind = "none"
    /\ burl = <<>>
    /\ count = 0
    /\ bop = "none"
    /\ barg = 0
    /\ bpc = "idle"
    /\ bi = 0
    /\ acc = <<>>
    /\ calls = <<>>
    /\ fetched = <<>>
    /\ bret = [kind |-> "none"]

\* No construction is under way.
DispIdle ==
    /\ durl = <<>>
    /\ dvia = "none"
    /\ dvi = 0
    /\ dwalk = <<>>
    /\ dkind = "none"
    /\ dpc = "idle"
    /\ dctors = <<>>
    /\ dsent = <<>>
    /\ dret = [kind |-> "none"]

\* No chapters are being compared.
OrderIdle ==
    /\ okind = "none"
    /\ oin = <<>>
    /\ opc = "start"
    /\ ocmp = <<>>
    /\ oout = <<>>

\* No listing or identifier is asked of a backend instance.
NoInstance ==
    /\ skind = "none"
    /\ surl = <<>>
    /\ spage = <<>>
    /\ ssite = <<>>
    /\ sop = "none"
    /\ spc = "idle"
    /\ sidx = 0
    /\ scnt = [wrapped |-> FALSE, n |-> 0]
    /\ scur = [p |-> 0, entries |-> [len |-> 0, flaw |-> "none"]]
    /\ sacc = <<>>
    /\ sreqs = <<>>
    /\ slist = [kind |-> "none"]
    /\ scount = [kind |-> "none"]
    /\ sident = [kind |-> "none"]
    /\ stwin = [page |-> <<>>, ident |-> [kind |-> "none"]]

SiteIdle == NoInstance /\ sbuild = "debug"

\* No FibonacciIterator exists apart from the one of get.
FibIdle == fits = <<>>

InitGet ==
    GetIdle /\ BackendIdle /\ CodecIdle /\ DispIdle /\ OrderIdle /\ SiteIdle /\ FibIdle

\* A loop that would start on the iterator as new() leaves it, its first
\* value (0) still to come.
GetIterator_NoDiscard == FibonacciIterator_new

\* The iterator get() starts its loop with: new(), then one next() whose
\* value (0) is thrown away.
GetIterator == FibAdvance(FibonacciIterator_new)

\* A retry branch that would give up only past twice the ceiling.
GivesUp_Late(wait_time) == wait_time > 2 * WaitCeiling

\* Whether the retry branch gives up on this wait.
GivesUp(wait_time) == wait_time > WaitCeiling

\* get(url) up to the loop: url.into_url()? and the iterator's set-up.
GetCall ==
    /\ gpc = "idle"
    /\ \E urlValid \in BOOLEAN :
         IF urlValid
         THEN /\ gpc' = "loop"
              /\ fib' = GetIterator
              /\ result' = "none"
         ELSE /\ gpc' = "done"
              /\ fib' = fib
              /\ result' = "err_net"
    /\ UNCHANGED <<requests, n429, lastStatus, waits>>
    /\ UNCHANGED <<backendVars, codecVars, dispVars, orderVars, siteVars, fibVars>>

\* A loop that would try again after a failed send().
GetTransportError_Retry ==
    /\ gpc = "loop"
    /\ requests < MaxRequests
    /\ requests' = Bump(requests)
    /\ lastStatus' = 0
    /\ UNCHANGED <<gpc, result, fib, n429, waits>>
    /\ UNCHANGED <<backendVars, codecVars, dispVars, orderVars, siteVars, fibVars>>

\* send()? fails: the transport error is returned.
GetTransportError ==
    /\ gpc = "loop"
    /\ requests' = Bump(requests)
    /\ lastStatus' = 0
    /\ gpc' = "done"
    /\ result' = "err_net"
    /\ UNCHANGED <<fib, n429, waits>>
    /\ UNCHANGED <<backendVars, codecVars, dispVars, orderVars, siteVars, fibVars>>

\* One iteration of the loop whose request got a response.
GetResponse(status) ==
    /\ gpc = "loop"
    /\ requests' = Bump(requests)
    /\ lastStatus' = status
    /\ IF is_success(status)
       THEN /\ gpc' = "done"
            /\ result' = "ok"
            /\ UNCHANGED <<fib, n429, waits>>
       ELSE IF status = TOO_MANY_REQUESTS
       THEN /\ n429' = n429 + 1
            /\ fib' = FibAdvance(fib)
            /\ IF GivesUp(FibValue(fib))
               THEN \* response.text()? may fail in its turn
                    /\ \E bodyRead \in BOOLEAN :
                         result' = IF bodyRead THEN "err_rate_limit" ELSE "err_net"
                    /\ gpc' = "done"
                    /\ waits' = waits
               ELSE /\ waits' = Append(waits, FibValue(fib))
                    /\ gpc' = "loop"
                    /\ result' = result
       ELSE \* neither branch is taken: the loop body ends and starts again
            /\ UNCHANGED <<gpc, fib, n429, waits, result>>
    /\ UNCHANGED <<backendVars, codecVars, dispVars, orderVars, siteVars, fibVars>>

GetAttempt == \E status \in Statuses : GetResponse(status)

NextGet == GetCall \/ GetTransportError \/ GetAttempt

SpecGet == InitGet /\ [][NextGet]_vars

\* get() is a sequential loop: while it has not returned it takes its next step.
SpecGetFair == SpecGet /\ WF_vars(NextGet)

-----------------------------------------------------------------------------
(* Properties of utils::get *)

\* The Fibonacci numbers 0, 1, 1, 2, 3, 5, 8, ... by their recurrence.
RECURSIVE Fibo(_)
Fibo(i) == IF i = 0 THEN 0 ELSE IF i = 1 THEN 1 ELSE Fibo(i - 1) + Fibo(i - 2)

\* Fibo(from) + ... + Fibo(from + k - 1)
RECURSIVE FiboSum(_, _)
FiboSum(from, k) == IF k = 0 THEN 0 ELSE Fibo(from) + FiboSum(from + 1, k - 1)

\* The call got 429 on its first n429 attempts and success on the next one.
Only429ThenSuccess ==
    /\ gpc = "done"
    /\ lastStatus = 200
    /\ requests < MaxRequests
    /\ requests = n429 + 1

\* C2 as claimed: after k responses 429 and then a success, get returns the
\* success and has slept the sum of the first k terms of 0, 1, 1, 2, 3, 5, ...
C2_SleptFromZero ==
    Only429ThenSuccess => (result = "ok" /\ slept = FiboSum(0, n429))

\* C2 amended: after k responses 429 and then a success, get returns the
\* success and has slept the sum of the first k terms of 1, 1, 2, 3, 5, 8, ...
\* (the i-th wait is Fibo(i): 1 second after the first 429).
C2_SleptFromOne ==
    /\ \A i \in 1..Len(waits) : waits[i] = Fibo(i)
    /\ Only429ThenSuccess => (result = "ok" /\ slept = FiboSum(1, n429))

C2_Witness ==
    Only429ThenSuccess /\ result = "ok" /\ n429 = 4 /\ slept = 7

\* C3: no sleep is longer than 60 seconds; the 429 whose wait would exceed
\* 60 seconds ends the call with an error, without that sleep and without
\* another request; an earlier 429 is slept on and retried.
C3_GiveUpAtCeiling ==
    /\ \A i \in 1..Len(waits) : waits[i] <= WaitCeiling
    /\ (n429 >= 1 /\ Fibo(n429) > WaitCeiling) =>
          /\ gpc = "done"
          /\ lastStatus = 429
          /\ result \in {"err_rate_limit", "err_net"}
          /\ Len(waits) = n429 - 1
    /\ (lastStatus = 429 /\ Fibo(n429) <= WaitCeiling) =>
          /\ gpc = "loop"
          /\ Len(waits) = n429
    /\ (requests < MaxRequests /\ requests = n429 /\ gpc = "done" /\ lastStatus = 429) =>
          requests = Len(waits) + 1

C3_Witness ==
    /\ result = "err_rate_limit"
    /\ gpc = "done"
    /\ requests = n429
    /\ Len(waits) = 10
    /\ waits[10] = 55

\* C4: a response that is neither a success nor a 429 ends the call.
C4_OtherStatusReturned ==
    (lastStatus # 0 /\ ~is_success(lastStatus) /\ lastStatus # TOO_MANY_REQUESTS)
        => gpc = "done"

\* C5: every call of get returns.
C5_GetTerminates == <>(gpc = "done")

-----------------------------------------------------------------------------
(* lib.rs: Chapter.  A String is a sequence of tokens; an Option is <<>>   *)
(* (None) or <<v>> (Some(v)); a map is a function on its set of keys.      *)

EmptyMap == [k \in {} |-> <<>>]

\* HashMap::insert
Insert(m, key, value) ==
    [k \in DOMAIN m \cup {key} |-> IF k = key THEN value ELSE m[k]]

Chapter_default ==
    [index |-> 0, title |-> <<>>, content |-> <<>>, chapter_url |-> <<>>,
     fiction_url |-> <<>>, published_at |-> <<>>, metadata |-> EmptyMap]

-----------------------------------------------------------------------------
(* backends: get_chapter of each implementation *)

Kinds == {"RoyalRoad", "FreeWebNovel", "LibRead", "LightNovelWorld"}

\* The urls a backend instance is constructed with.
Urls == {<<"u1">>, <<"u2">>}

Ok(v) == [kind |-> "ok", value |-> v]
Err(e) == [kind |-> "err", error |-> e]
\* The call does not return: get() never comes back, or an unwrap() on a page
\* without the expected element aborts the thread.
NoReturn(why) == [kind |-> "no_return", why |-> why]

UnknownChapter(n) == [type |-> "UnknownChapter", n |-> n]

\* What one chapter-page fetch can lead to: how utils::get ends
\* ("ok" | "err_net" | "err_rate_limit" | "no_return") and, when it returned
\* a page, whether the page has the elements the selectors look for
\* ("ok" | "malformed") and a date that parses ("bad_date").
Fetches ==
    {[get |-> "ok", page |-> p] : p \in {"ok", "malformed", "bad_date"}}
        \cup {[get |-> g, page |-> "none"] : g \in {"err_net", "err_rate_limit", "no_return"}}

\* `get(url)?` as seen by its caller; a returned response is always a
\* success, the only Ok(..) of utils::get.
FetchFailure(f) ==
    IF f.get = "err_net" THEN Err([type |-> "NetError"])
    ELSE IF f.get = "err_rate_limit" THEN Err([type |-> "RequestFailed"])
    ELSE NoReturn("get")

\* Result of a get_chapter: ret is what it returns, fetched whether it sent
\* a request for the chapter page.
Outcome(ret, sent) == [ret |-> ret, fetched |-> sent]

\* The title, content and date a chapter page yields are of no concern to
\* the properties below: one value stands for each.
PageTitle(n) == <<"Chapter", n>>
PageContent(n) == <<"text", n>>
PageDate(n) == n

RoyalRoad_get_chapter(url, links, chapter_number, f) ==
    IF chapter_number = 0 THEN Outcome(Err(UnknownChapter(chapter_number)), FALSE)
    ELSE IF chapter_number > links THEN Outcome(Err(UnknownChapter(chapter_number)), FALSE)
    ELSE IF f.get # "ok" THEN Outcome(FetchFailure(f), TRUE)
    ELSE IF f.page = "malformed" THEN Outcome(NoReturn("unwrap"), TRUE)
    ELSE IF f.page = "bad_date" THEN Outcome(Err([type |-> "DateParseError"]), TRUE)
    ELSE Outcome(Ok([Chapter_default EXCEPT
                        !.index = chapter_number,
                        !.title = <<PageTitle(chapter_number)>>,
                        !.chapter_url = <<"https://www.royalroad.com", chapter_number>>,
                        !.fiction_url = url,
                        !.published_at = <<PageDate(chapter_number)>>,
                        !.metadata = [k \in {<<"chapter_id">>, <<"fiction_id">>} |->
                                         <<"id">>],
                        !.content = PageContent(chapter_number)]), TRUE)

\* freewebnovel::get_chapter(url): the free function FreeWebNovel and LibRead
\* share; index and fiction_url keep their defaults.
freewebnovel_get_chapter(chapter_url, n, f) ==
    IF f.get # "ok" THEN FetchFailure(f)
    ELSE IF f.page = "malformed" THEN NoReturn("unwrap")
    ELSE Ok([Chapter_default EXCEPT
                !.title = <<PageTitle(n)>>,
                !.chapter_url = chapter_url,
                !.content = PageContent(n)])

\* A caller that would hand on the chapter of the free function as it is.
SetIndexAndFiction_Keep(r, chapter_number, url) == r

\* `let mut chapter = get_chapter(chapter_url)?; chapter.index = ..;
\* chapter.fiction_url = ..; Ok(chapter)`
SetIndexAndFiction(r, chapter_number, url) ==
    IF r.kind = "ok"
    THEN Ok([r.value EXCEPT !.index = chapter_number, !.fiction_url = url])
    ELSE r

FreeWebNovel_get_chapter(url, links, chapter_number, f) ==
    IF chapter_number = 0 THEN Outcome(Err(UnknownChapter(chapter_number)), FALSE)
    ELSE IF chapter_number > links THEN Outcome(Err(UnknownChapter(chapter_number)), FALSE)
    ELSE Outcome(SetIndexAndFiction(
                    freewebnovel_get_chapter(<<"https://freewebnovel.com", chapter_number>>,
                                             chapter_number, f),
                    chapter_number, url), TRUE)

LibRead_get_chapter(url, links, chapter_number, f) ==
    IF chapter_number = 0 THEN Outcome(Err(UnknownChapter(chapter_number)), FALSE)
    ELSE IF chapter_number > links THEN Outcome(Err(UnknownChapter(chapter_number)), FALSE)
    ELSE Outcome(SetIndexAndFiction(
                    freewebnovel_get_chapter(<<"https://libread.com", chapter_number>>,
                                             chapter_number, f),
                    chapter_number, url), TRUE)

\* LightNovelWorld (lightnovelworld.rs implements Backend for it; mod.rs does
\* not declare the module among the variants of Backends) builds the chapter
\* url from the number and requests it: no look-up in the listing comes first.
LightNovelWorld_get_chapter(url, links, chapter_number, f) ==
    IF f.get # "ok" THEN Outcome(FetchFailure(f), TRUE)
    ELSE IF f.page = "malformed" THEN Outcome(NoReturn("unwrap"), TRUE)
    ELSE IF f.page = "bad_date" THEN Outcome(Err([type |-> "DateParseError"]), TRUE)
    ELSE Outcome(Ok([Chapter_default EXCEPT
                        !.index = chapter_number,
                        !.title = <<PageTitle(chapter_number)>>,
                        !.chapter_url = url \o <<"/chapter-", chapter_number>>,
                        !.fiction_url = url,
                        !.published_at = <<PageDate(chapter_number)>>,
                        !.content = PageContent(chapter_number)]), TRUE)

\* Backend::get_chapter on an instance of the given kind.
get_chapter(k, url, links, chapter_number, f) ==
    CASE k = "RoyalRoad" -> RoyalRoad_get_chapter(url, links, chapter_number, f)
      [] k = "FreeWebNovel" -> FreeWebNovel_get_chapter(url, links, chapter_number, f)
      [] k = "LibRead" -> LibRead_get_chapter(url, links, chapter_number, f)
      [] k = "LightNovelWorld" -> LightNovelWorld_get_chapter(url, links, chapter_number, f)

-----------------------------------------------------------------------------
(* backends/mod.rs: the default get_chapters, and a direct get_chapter call *)

\* A backend instance right after its construction.
InitBackend ==
    /\ GetIdle
    /\ CodecIdle
    /\ DispIdle
    /\ SiteIdle
    /\ FibIdle
    /\ OrderIdle
    /\ kind \in Kinds
    /\ burl \in Urls
    /\ count \in 0..MaxChapters
    /\ bop = "none"
    /\ barg = 0
    /\ bpc = "idle"
    /\ bi = 0
    /\ acc = <<>>
    /\ calls = <<>>
    /\ fetched = <<>>
    /\ bret = [kind |-> "none"]

\* The caller calls get_chapter(n).
CallGetChapter ==
    /\ bpc = "idle"
    /\ \E n \in 0..(MaxChapters + 1), f \in Fetches :
         LET o == get_chapter(kind, burl, count, n, f) IN
           /\ bop' = "get_chapter"
           /\ barg' = n
           /\ calls' = Append(calls, [n |-> n, ret |-> o.ret])
           /\ fetched' = IF o.fetched THEN Append(fetched, n) ELSE fetched
           /\ bret' = o.ret
           /\ bpc' = IF o.ret.kind = "no_return" THEN "no_return" ELSE "done"
    /\ UNCHANGED <<kind, burl, count, bi, acc>>
    /\ UNCHANGED <<getVars, codecVars, dispVars, orderVars, siteVars, fibVars>>

\* Backend::get_chapter_count.  RoyalRoad, FreeWebNovel and LibRead count the
\* links of their snapshot.  LightNovelWorld has the default,
\* get_chapter_list()?.len(), and its get_chapter_list requests the further
\* listing pages: lf is how these requests end.
get_chapter_count(k, links, lf) ==
    IF k = "LightNovelWorld" /\ lf # "ok"
    THEN FetchFailure([get |-> lf, page |-> "none"])
    ELSE Ok(links)

\* get_chapters up to its loop: `let mut chapters = Vec::new();` and the
\* range 1..self.get_chapter_count()?
GetChaptersCall ==
    /\ bpc = "idle"
    /\ bop' = "get_chapters"
    /\ \E lf \in {"ok", "err_net", "err_rate_limit", "no_return"} :
         LET c == get_chapter_count(kind, count, lf) IN
           IF c.kind = "ok"
           THEN /\ bpc' = "loop"
                /\ bi' = 1
                /\ bret' = bret
           ELSE /\ bpc' = IF c.kind = "no_return" THEN "no_return" ELSE "done"
                /\ bi' = bi
                /\ bret' = c
    /\ acc' = <<>>
    /\ UNCHANGED <<kind, burl, count, barg, calls, fetched>>
    /\ UNCHANGED <<getVars, codecVars, dispVars, orderVars, siteVars, fibVars>>

\* The range of get_chapters' loop still holds i.
InRange(i, chapter_count) == i < chapter_count

\* A loop that would skip a chapter whose get_chapter returned an error.
AfterChapter_Swallow(r) ==
    IF r.kind = "no_return"
    THEN /\ acc' = acc
         /\ bi' = bi
         /\ bpc' = "no_return"
         /\ bret' = r
    ELSE /\ acc' = IF r.kind = "ok" THEN Append(acc, r.value) ELSE acc
         /\ bi' = bi + 1
         /\ bpc' = "loop"
         /\ bret' = bret

\* What get_chapters does with the result r of self.get_chapter(i):
\* `let chapter = self.get_chapter(i)?; chapters.push(chapter);`
AfterChapter(r) ==
    IF r.kind = "ok"
    THEN /\ acc' = Append(acc, r.value)
         /\ bi' = bi + 1
         /\ bpc' = "loop"
         /\ bret' = bret
    ELSE /\ acc' = acc
         /\ bi' = bi
         /\ bpc' = IF r.kind = "no_return" THEN "no_return" ELSE "done"
         /\ bret' = r

\* One iteration of the loop.
GetChaptersStep ==
    /\ bpc = "loop"
    /\ InRange(bi, count)
    /\ \E f \in Fetches :
         LET o == get_chapter(kind, burl, count, bi, f) IN
           /\ calls' = Append(calls, [n |-> bi, ret |-> o.ret])
           /\ fetched' = IF o.fetched THEN Append(fetched, bi) ELSE fetched
           /\ AfterChapter(o.ret)
    /\ UNCHANGED <<kind, burl, count, bop, barg>>
    /\ UNCHANGED <<getVars, codecVars, dispVars, orderVars, siteVars, fibVars>>

\* The range is exhausted: Ok(chapters).
GetChaptersReturn ==
    /\ bpc = "loop"
    /\ ~InRange(bi, count)
    /\ bpc' = "done"
    /\ bret' = Ok(acc)
    /\ UNCHANGED <<kind, burl, count, bop, barg, bi, acc, calls, fetched>>
    /\ UNCHANGED <<getVars, codecVars, dispVars, orderVars, siteVars, fibVars>>

NextBackend == CallGetChapter \/ GetChaptersCall \/ GetChaptersStep \/ GetChaptersReturn

SpecBackend == InitBackend /\ [][NextBackend]_vars

-----------------------------------------------------------------------------
(* Properties of get_chapter and get_chapters *)

\* get_chapters has returned a list and every get_chapter it called succeeded.
ChaptersReturned ==
    /\ bop = "get_chapters"
    /\ bpc = "done"
    /\ bret.kind = "ok"

\* C6: get_chapters calls get_chapter(i) for i = 1..chapter_count in
\* ascending order and returns chapter_count chapters, the one at position i
\* having index i.
C6_AllChaptersReturned ==
    ChaptersReturned =>
        /\ Len(calls) = count
        /\ \A j \in 1..Len(calls) : calls[j].n = j
        /\ Len(bret.value) = count
        /\ \A j \in 1..Len(bret.value) : bret.value[j].index = j

\* C7: in get_chapters, a get_chapter call that returns an error is the last
\* call made (the calls so far being 1, 2, ..., i), and get_chapters returns
\* that error, which carries no chapter.
C7_FailFast ==
    bop = "get_chapters" =>
        /\ \A j \in 1..Len(calls) : calls[j].n = j
        /\ \A j \in 1..Len(calls) :
             calls[j].ret.kind = "err" =>
                 /\ j = Len(calls)
                 /\ bpc = "done"
                 /\ bret = Err(calls[j].ret.error)
                 /\ DOMAIN bret = {"kind", "error"}

C7_Witness ==
    /\ bop = "get_chapters"
    /\ bpc = "done"
    /\ Len(calls) = 2
    /\ calls[1].ret.kind = "ok"
    /\ calls[2].ret.kind = "err"
    /\ bret.kind = "err"
    /\ count = 3

\* C8: get_chapter(0) returns UnknownChapter(0) without any request.
C8_ChapterZeroUnknown ==
    (bop = "get_chapter" /\ barg = 0) =>
        /\ bpc = "done"
        /\ bret = Err(UnknownChapter(0))
        /\ fetched = <<>>

\* C9: get_chapter(n) with n > chapter_count returns UnknownChapter(n)
\* without any request.
C9_ChapterBeyondCountUnknown ==
    (bop = "get_chapter" /\ barg > count) =>
        /\ bpc = "done"
        /\ bret = Err(UnknownChapter(barg))
        /\ fetched = <<>>

\* C10: a chapter returned by get_chapter(n) has index n and the backend's
\* url as its fiction_url.
C10_IndexAndFictionUrl ==
    \A j \in 1..Len(calls) :
        calls[j].ret.kind = "ok" =>
            /\ calls[j].ret.value.index = calls[j].n
            /\ calls[j].ret.value.fiction_url = burl

C10_Witness ==
    /\ bop = "get_chapter"
    /\ kind = "LibRead"
    /\ barg = 2
    /\ bret.kind = "ok"
    /\ bret.value.index = 2
    /\ bret.value.fiction_url = burl

-----------------------------------------------------------------------------
(* lib.rs: text.  A String is a sequence of tokens: a token is one         *)
(* character (a letter, a digit, " ", ":", "\n") or one of the markers and *)
(* field names below, which the code only ever tests as a whole.          *)

NL == "\n"
COMMENT_OPEN == "<!--"
COMMENT_CLOSE == "-->"
H1_OPEN == "<h1 class=\"mainTitle\">"
H1_CLOSE == "</h1>"
DIV_OPEN == "<div class=\"content\">"
DIV_CLOSE == "</div>"

IsWhitespace(t) == t \in {" ", NL}

RECURSIVE TrimStart(_)
TrimStart(s) ==
    IF s # <<>> /\ IsWhitespace(Head(s)) THEN TrimStart(Tail(s)) ELSE s

RECURSIVE TrimEnd(_)
TrimEnd(s) ==
    IF s # <<>> /\ IsWhitespace(s[Len(s)]) THEN TrimEnd(SubSeq(s, 1, Len(s) - 1)) ELSE s

\* str::trim
Trim(s) == TrimEnd(TrimStart(s))

\* str::trim_end_matches(pattern): every trailing repetition goes.
RECURSIVE TrimEndMatches(_, _)
TrimEndMatches(s, tok) ==
    IF s # <<>> /\ s[Len(s)] = tok THEN TrimEndMatches(SubSeq(s, 1, Len(s) - 1), tok) ELSE s

\* str::lines: the text cut at each "\n"; a final line break opens no line.
RECURSIVE SplitLines(_, _)
SplitLines(s, cur) ==
    IF s = <<>> THEN (IF cur = <<>> THEN <<>> ELSE <<cur>>)
    ELSE IF Head(s) = NL THEN <<cur>> \o SplitLines(Tail(s), <<>>)
    ELSE SplitLines(Tail(s), Append(cur, Head(s)))

Lines(s) == SplitLines(s, <<>>)

\* str::starts_with for a pattern of one or two tokens.
StartsWith(line, pat) ==
    /\ Len(line) >= Len(pat)
    /\ SubSeq(line, 1, Len(pat)) = pat

\* line.splitn(2, ':'): one part without a colon, else the text before the
\* first colon and the text after it.
FirstColon(s) ==
    IF \E i \in 1..Len(s) : s[i] = ":"
    THEN CHOOSE i \in 1..Len(s) : s[i] = ":" /\ \A j \in 1..(i - 1) : s[j] # ":"
    ELSE 0

SplitN2(s) ==
    IF FirstColon(s) = 0 THEN <<s>>
    ELSE <<SubSeq(s, 1, FirstColon(s) - 1), SubSeq(s, FirstColon(s) + 1, Len(s))>>

\* Decimal digits of a usize (Display) ...
DigitTok == <<"0", "1", "2", "3", "4", "5", "6", "7", "8", "9">>

RECURSIVE FormatNat(_)
FormatNat(n) ==
    IF n < 10 THEN <<DigitTok[n + 1]>>
    ELSE FormatNat(n \div 10) \o <<DigitTok[(n % 10) + 1]>>

DigitValue(t) == CHOOSE d \in 0..9 : DigitTok[d + 1] = t

IsDigit(t) == \E d \in 0..9 : DigitTok[d + 1] = t

RECURSIVE DigitsValue(_, _)
DigitsValue(s, sofar) ==
    IF s = <<>> THEN sofar ELSE DigitsValue(Tail(s), 10 * sofar + DigitValue(Head(s)))

\* ... and str::parse::<usize>().ok(): digits after an optional "+".
ParseNat(s) ==
    LET digits == IF s # <<>> /\ Head(s) = "+" THEN Tail(s) ELSE s IN
    IF digits # <<>> /\ \A i \in 1..Len(digits) : IsDigit(digits[i])
    THEN <<DigitsValue(digits, 0)>>
    ELSE <<>>

\* DateTime::to_rfc3339: a timestamp t is written with its colons
\* ("..T00:00:0t+00:00").
to_rfc3339(t) == <<"T", ":">> \o FormatNat(t) \o <<"+00", ":", "00">>

\* DateTime::parse_from_rfc3339(s).ok()
parse_from_rfc3339(s) ==
    IF /\ Len(s) >= 6
       /\ SubSeq(s, 1, 2) = <<"T", ":">>
       /\ SubSeq(s, Len(s) - 2, Len(s)) = <<"+00", ":", "00">>
       /\ ParseNat(SubSeq(s, 3, Len(s) - 3)) # <<>>
       /\ Head(SubSeq(s, 3, Len(s) - 3)) # "+"
    THEN ParseNat(SubSeq(s, 3, Len(s) - 3))
    ELSE <<>>

-----------------------------------------------------------------------------
(* scraper::Html: parse_fragment followed by serialisation, on tokens.      *)
(* Comments are kept, an open comment or element is closed at the end of    *)
(* the input, an end tag without its element is dropped, "-->" in text is   *)
(* escaped.                                                                 *)

Closer(tag) == IF tag = "h1" THEN H1_CLOSE ELSE DIV_CLOSE

RECURSIVE Closers(_)
Closers(stack) ==
    IF stack = <<>> \/ Head(stack) = "root" THEN <<>>
    ELSE <<Closer(Head(stack))>> \o Closers(Tail(stack))

\* Position in the stack (top first) of the nearest open element among tags,
\* 0 when there is none.
Nearest(stack, tags) ==
    IF \E i \in 1..Len(stack) : stack[i] \in tags
    THEN CHOOSE i \in 1..Len(stack) :
            stack[i] \in tags /\ \A j \in 1..(i - 1) : stack[j] \notin tags
    ELSE 0

RECURSIVE Reserialise(_, _, _)
Reserialise(s, stack, inComment) ==
    IF s = <<>>
    THEN (IF inComment THEN <<COMMENT_CLOSE>> ELSE <<>>) \o Closers(stack)
    ELSE
      LET t == Head(s)
          rest == Tail(s)
      IN
      IF inComment
      THEN <<t>> \o Reserialise(rest, stack, t # COMMENT_CLOSE)
      ELSE IF t = COMMENT_OPEN THEN <<t>> \o Reserialise(rest, stack, TRUE)
      ELSE IF t = COMMENT_CLOSE THEN <<"--&gt;">> \o Reserialise(rest, stack, FALSE)
      ELSE IF t = DIV_OPEN THEN <<t>> \o Reserialise(rest, <<"div">> \o stack, FALSE)
      ELSE IF t = H1_OPEN
      THEN IF stack # <<>> /\ Head(stack) = "h1"
           THEN <<H1_CLOSE, t>> \o Reserialise(rest, stack, FALSE)
           ELSE <<t>> \o Reserialise(rest, <<"h1">> \o stack, FALSE)
      ELSE IF t = DIV_CLOSE
      THEN LET i == Nearest(stack, {"div", "root"}) IN
           IF i = 0 THEN Reserialise(rest, stack, FALSE)
           ELSE IF stack[i] = "root" THEN Closers(SubSeq(stack, 1, i - 1))
           ELSE Closers(SubSeq(stack, 1, i))
                    \o Reserialise(rest, SubSeq(stack, i + 1, Len(stack)), FALSE)
      ELSE IF t = H1_CLOSE
      THEN LET i == Nearest(stack, {"h1"}) IN
           IF i = 0 THEN Reserialise(rest, stack, FALSE)
           ELSE Closers(SubSeq(stack, 1, i))
                    \o Reserialise(rest, SubSeq(stack, i + 1, Len(stack)), FALSE)
      ELSE <<t>> \o Reserialise(rest, stack, FALSE)

\* Html::parse_fragment(s).html() without its <html> wrapper
FragmentHtml(s) == Reserialise(s, <<>>, FALSE)

\* Html::parse_fragment(s).select("div.content").nth(0) and its inner_html():
\* <<>> when no element matches, else <<the inner html>>.  The text given
\* by from_str starts with the div.content tag when it is not empty.
FirstContentDiv(s) ==
    IF s = <<>> \/ Head(s) # DIV_OPEN THEN <<>>
    ELSE <<Reserialise(Tail(s), <<"root">>, FALSE)>>

\* Chapter::set_content
set_content(s) == Trim(FragmentHtml(s))

-----------------------------------------------------------------------------
(* lib.rs: impl Display for Chapter *)

RECURSIVE MetadataLines(_, _)
MetadataLines(m, order) ==
    IF order = <<>> THEN <<>>
    ELSE <<" ", " ">> \o Head(order) \o <<":", " ">> \o m[Head(order)] \o <<NL>>
            \o MetadataLines(m, Tail(order))

\* The orders in which `for (key, value) in &self.metadata` may visit a map.
Orders(m) ==
    {o \in [1..Cardinality(DOMAIN m) -> DOMAIN m] :
        \A i, j \in 1..Cardinality(DOMAIN m) : i # j => o[i] # o[j]}

\* A writer that would give a chapter without title an empty title line.
to_string_TitleAlways(c, order) ==
    <<COMMENT_OPEN, NL>>
        \o <<"index", ":", " ">> \o FormatNat(c.index) \o <<NL>>
        \o <<"chapter_url", ":", " ">> \o c.chapter_url \o <<NL>>
        \o <<"fiction_url", ":", " ">> \o c.fiction_url \o <<NL>>
        \o <<"published_at", ":", " ">>
        \o (IF c.published_at # <<>> THEN to_rfc3339(c.published_at[1]) ELSE <<"not_found">>)
        \o <<NL>>
        \o <<"metadata", ":", NL>>
        \o MetadataLines(c.metadata, order)
        \o <<COMMENT_CLOSE, NL>>
        \o <<H1_OPEN>> \o (IF c.title # <<>> THEN c.title[1] ELSE <<>>) \o <<H1_CLOSE, NL>>
        \o <<DIV_OPEN, NL>> \o c.content \o <<NL, DIV_CLOSE>>

to_string(c, order) ==
    <<COMMENT_OPEN, NL>>
        \o <<"index", ":", " ">> \o FormatNat(c.index) \o <<NL>>
        \o <<"chapter_url", ":", " ">> \o c.chapter_url \o <<NL>>
        \o <<"fiction_url", ":", " ">> \o c.fiction_url \o <<NL>>
        \o <<"published_at", ":", " ">>
        \o (IF c.published_at # <<>> THEN to_rfc3339(c.published_at[1]) ELSE <<"not_found">>)
        \o <<NL>>
        \o <<"metadata", ":", NL>>
        \o MetadataLines(c.metadata, order)
        \o <<COMMENT_CLOSE, NL>>
        \o (IF c.title # <<>> THEN <<H1_OPEN>> \o c.title[1] \o <<H1_CLOSE, NL>> ELSE <<>>)
        \o <<DIV_OPEN, NL>> \o c.content \o <<NL, DIV_CLOSE>>

-----------------------------------------------------------------------------
(* lib.rs: impl FromStr for Chapter *)

\* The locals of from_str before its loop.
DecodeStart ==
    [in_chapter_data |-> FALSE, in_metadata |-> FALSE, in_content |-> FALSE,
     chapter_data |-> EmptyMap, metadata |-> EmptyMap,
     title |-> <<>>, content |-> <<>>]

\* The body of `if in_chapter_data { .. }` for a line.
HeaderLine(st, line) ==
    IF StartsWith(line, <<"metadata", ":">>)
    THEN [st EXCEPT !.in_metadata = TRUE]
    ELSE
      LET in_metadata == st.in_metadata /\ StartsWith(line, <<" ", " ">>)
          parts == SplitN2(Trim(line))
      IN
      IF Len(parts) = 2
      THEN IF in_metadata
           THEN [st EXCEPT !.in_metadata = in_metadata,
                           !.metadata = Insert(@, Trim(parts[1]), Trim(parts[2]))]
           ELSE [st EXCEPT !.in_metadata = in_metadata,
                           !.chapter_data = Insert(@, Trim(parts[1]), Trim(parts[2]))]
      ELSE [st EXCEPT !.in_metadata = in_metadata]

\* One iteration of `for line in s.lines()`.
DecodeLine(st, line) ==
    IF StartsWith(line, <<COMMENT_OPEN>>) THEN [st EXCEPT !.in_chapter_data = TRUE]
    ELSE IF StartsWith(line, <<COMMENT_CLOSE>>) THEN [st EXCEPT !.in_chapter_data = FALSE]
    ELSE IF st.in_chapter_data THEN HeaderLine(st, line)
    ELSE IF StartsWith(line, <<H1_OPEN>>)
    THEN [st EXCEPT !.title = <<TrimEndMatches(Tail(line), H1_CLOSE)>>]
    ELSE IF StartsWith(line, <<DIV_OPEN>>)
    THEN [st EXCEPT !.content = @ \o <<DIV_OPEN>>, !.in_content = TRUE]
    ELSE IF st.in_content THEN [st EXCEPT !.content = @ \o line \o <<NL>>]
    ELSE st

RECURSIVE DecodeLines(_, _)
DecodeLines(st, lines) ==
    IF lines = <<>> THEN st ELSE DecodeLines(DecodeLine(st, Head(lines)), Tail(lines))

ChapterParseError(what) == [type |-> "ChapterParseError", message |-> what]

Get(m, key) == IF key \in DOMAIN m THEN <<m[key]>> ELSE <<>>

\* `chapter_data.get("published_at").and_then(..)`
DecodePublishedAt(data) ==
    IF Get(data, <<"published_at">>) = <<>> THEN <<>>
    ELSE IF data[<<"published_at">>] = <<"not_found">> THEN <<>>
    ELSE parse_from_rfc3339(data[<<"published_at">>])

\* A reader that would fall back on the defaults of Chapter for the fields
\* the header does not give.
DecodeFinish_Defaulting(st) ==
    LET data == st.chapter_data
        OrEmpty(key) == IF key \in DOMAIN data THEN data[key] ELSE <<>>
        index == IF Get(data, <<"index">>) = <<>> \/ ParseNat(data[<<"index">>]) = <<>>
                 THEN 0 ELSE ParseNat(data[<<"index">>])[1]
    IN
    IF FirstContentDiv(st.content) = <<>>
    THEN NoReturn("unwrap")
    ELSE Ok([index |-> index,
             title |-> st.title,
             content |-> set_content(FirstContentDiv(st.content)[1]),
             chapter_url |-> OrEmpty(<<"chapter_url">>),
             fiction_url |-> OrEmpty(<<"fiction_url">>),
             published_at |-> DecodePublishedAt(data),
             metadata |-> st.metadata])

\* The part of from_str after the loop.
DecodeFinish(st) ==
    LET data == st.chapter_data IN
    IF Get(data, <<"index">>) = <<>> \/ ParseNat(data[<<"index">>]) = <<>>
    THEN Err(ChapterParseError("Invalid chapter index"))
    ELSE IF Get(data, <<"chapter_url">>) = <<>>
    THEN Err(ChapterParseError("Invalid chapter url"))
    ELSE IF Get(data, <<"fiction_url">>) = <<>>
    THEN Err(ChapterParseError("Invalid fiction url"))
    ELSE IF FirstContentDiv(st.content) = <<>>
    THEN NoReturn("unwrap")
    ELSE Ok([index |-> ParseNat(data[<<"index">>])[1],
             title |-> st.title,
             content |-> set_content(FirstContentDiv(st.content)[1]),
             chapter_url |-> data[<<"chapter_url">>],
             fiction_url |-> data[<<"fiction_url">>],
             published_at |-> DecodePublishedAt(data),
             metadata |-> st.metadata])

from_str(s) == DecodeFinish(DecodeLines(DecodeStart, Lines(s)))

-----------------------------------------------------------------------------
(* A Chapter written with to_string and read back with from_str *)

\* The strings of at most n tokens over an alphabet.
Strs(alphabet, n) == UNION {[1..k -> alphabet] : k \in 0..n}

TitleValues == {<<>>} \cup {<<t>> : t \in Strs({"a", H1_CLOSE}, MaxTitleLen)}

UrlValues == Strs({"u", " "}, MaxUrlLen)

FictionUrlValues == {<<"https", ":", "f">>}

MetaKeys == {<<"k">>, <<"j">>, <<"k", ":">>}

MetaValue == <<"v", ":", "w">>

MetadataValues ==
    {[k \in keys |-> MetaValue] : keys \in {ks \in SUBSET MetaKeys : Cardinality(ks) <= MaxMeta}}

\* Content as set_content leaves it.
ContentValues ==
    {s \in Strs({"p", NL, COMMENT_OPEN, COMMENT_CLOSE, DIV_OPEN, DIV_CLOSE}, MaxContentLen) :
        set_content(s) = s}

CodecChapters ==
    [index : {0, MaxIndex},
     title : TitleValues,
     content : ContentValues,
     chapter_url : UrlValues,
     fiction_url : FictionUrlValues,
     published_at : {<<>>, <<7>>},
     metadata : MetadataValues]

InitCodec ==
    /\ GetIdle
    /\ BackendIdle
    /\ DispIdle
    /\ SiteIdle
    /\ FibIdle
    /\ OrderIdle
    /\ chap \in CodecChapters
    /\ cpc = "start"
    /\ text = <<>>
    /\ decoded = [kind |-> "none"]

\* chap.to_string()
Encode ==
    /\ cpc = "start"
    /\ \E order \in Orders(chap.metadata) : text' = to_string(chap, order)
    /\ cpc' = "encoded"
    /\ UNCHANGED <<chap, decoded>>
    /\ UNCHANGED <<getVars, backendVars, dispVars, orderVars, siteVars, fibVars>>

\* Chapter::from_str(&text)
Decode ==
    /\ cpc = "encoded"
    /\ decoded' = from_str(text)
    /\ cpc' = "decoded"
    /\ UNCHANGED <<chap, text>>
    /\ UNCHANGED <<getVars, backendVars, dispVars, orderVars, siteVars, fibVars>>

NextCodec == Encode \/ Decode

SpecCodec == InitCodec /\ [][NextCodec]_vars

-----------------------------------------------------------------------------
(* backends: construction.  A url is a sequence of pieces, each a whole     *)
(* address of one site; a pattern is the set of pieces it matches, and      *)
(* Regex::is_match searches the url for it at any position.                 *)

RR_PIECE == "https://www.royalroad.com/fiction/1/a"
LR_PIECE == "http://libread.com/libread/a"
FW_PIECE == "https://freewebnovel.com/a.html"
LNW_PIECE == "https://www.lightnovelworld.com/novel/a"
OTHER_PIECE == "https://example.com/?from="

UrlPieces == {RR_PIECE, LR_PIECE, FW_PIECE, LNW_PIECE, OTHER_PIECE}

DispatchUrls == Strs(UrlPieces, MaxUrlPieces) \ {<<>>}

\* A walk that would start from the last variant.
Variants_Reversed == <<"FreeWebNovel", "LibRead", "RoyalRoad", "Dumb">>

\* Backends::iter(): the variants in the order of their declaration.
Variants == <<"Dumb", "RoyalRoad", "LibRead", "FreeWebNovel">>

\* Patterns that would give the placeholder variant one of its own.
get_backend_regexps_DumbMatches(k) ==
    CASE k = "Dumb" -> <<{OTHER_PIECE}>>
      [] k = "RoyalRoad" -> <<{RR_PIECE}>>
      [] k = "LibRead" -> <<{LR_PIECE}>>
      [] k = "FreeWebNovel" -> <<{FW_PIECE}>>
      [] k = "LightNovelWorld" -> <<{LNW_PIECE}>>

\* <Backend>::get_backend_regexps(), Backends::get_backend_regexps(&self)
get_backend_regexps(k) ==
    CASE k = "Dumb" -> <<>>
      [] k = "RoyalRoad" -> <<{RR_PIECE}>>
      [] k = "LibRead" -> <<{LR_PIECE}>>
      [] k = "FreeWebNovel" -> <<{FW_PIECE}>>
      [] k = "LightNovelWorld" -> <<{LNW_PIECE}>>

is_match(regex, url) == \E i \in 1..Len(url) : url[i] \in regex

\* `for regex in backend_variant.get_backend_regexps() { if regex.is_match(url)`
AnyMatch(regexps, url) == \E j \in 1..Len(regexps) : is_match(regexps[j], url)

NoMatchingBackendFound(url) == [type |-> "NoMatchingBackendFound", url |-> url]

RequestFailed == [type |-> "RequestFailed"]

NetError == [type |-> "NetError"]

\* The instance a constructor returns.
Instance(k, url) == [kind |-> k, url |-> url]

\* A walk that would end on a backend of the first variant.
WalkEnd_Dumb(url) == Ok(Instance("Dumb", url))

\* Backends::new after its loops: no variant matched.
WalkEnd(url) == Err(NoMatchingBackendFound(url))

\* <Backend>::new(url) up to its first `get(url)?`.
StartConstructor(k) ==
    /\ dkind' = k
    /\ dctors' = Append(dctors, k)
    /\ dsent' = Append(dsent, [path |-> "", outcome |-> "pending"])
    /\ dpc' = "fetch1"
    /\ dret' = dret

\* The caller calls Backends::new(url).
BackendsNewCall ==
    /\ dpc = "idle"
    /\ \E url \in DispatchUrls : durl' = url
    /\ dvia' = "Backends::new"
    /\ dvi' = 1
    /\ dpc' = "walk"
    /\ UNCHANGED <<dwalk, dkind, dctors, dsent, dret>>
    /\ UNCHANGED <<getVars, backendVars, codecVars, orderVars, siteVars, fibVars>>

\* The caller calls the constructor of one backend.
DirectNewCall ==
    /\ dpc = "idle"
    /\ \E k \in Kinds :
         /\ \E piece \in get_backend_regexps(k)[1] : durl' = <<piece>>
         /\ StartConstructor(k)
    /\ dvia' = "new"
    /\ UNCHANGED <<dvi, dwalk>>
    /\ UNCHANGED <<getVars, backendVars, codecVars, orderVars, siteVars, fibVars>>

\* One variant of the outer loop of Backends::new: its patterns are tested
\* and, on a match, `return backend_variant.new_from_url(url)`.
WalkStep ==
    /\ dpc = "walk"
    /\ dvi <= Len(Variants)
    /\ dwalk' = Append(dwalk, Variants[dvi])
    /\ IF AnyMatch(get_backend_regexps(Variants[dvi]), durl)
       THEN IF Variants[dvi] = "Dumb"
            THEN /\ dret' = Ok(Instance("Dumb", durl))
                 /\ dpc' = "done"
                 /\ dctors' = Append(dctors, "Dumb")
                 /\ UNCHANGED <<dkind, dsent, dvi>>
            ELSE /\ StartConstructor(Variants[dvi])
                 /\ dvi' = dvi
       ELSE /\ dvi' = dvi + 1
            /\ UNCHANGED <<dkind, dpc, dctors, dsent, dret>>
    /\ UNCHANGED <<durl, dvia>>
    /\ UNCHANGED <<getVars, backendVars, codecVars, orderVars, siteVars, fibVars>>

\* Every variant was tested.
WalkReturn ==
    /\ dpc = "walk"
    /\ dvi > Len(Variants)
    /\ dret' = WalkEnd(durl)
    /\ dpc' = "done"
    /\ UNCHANGED <<durl, dvia, dvi, dwalk, dkind, dctors, dsent>>
    /\ UNCHANGED <<getVars, backendVars, codecVars, orderVars, siteVars, fibVars>>

\* The call of utils::get the constructor waits for takes a step.
FetchStep ==
    /\ dpc \in {"fetch1", "fetch2"}
    /\ NextGet

\* The last call of get is recorded with how it ended.
Sent(outcome) == [dsent EXCEPT ![Len(dsent)].outcome = outcome]

\* The constructor ends with an error.
ConstructorFails(e) ==
    /\ dret' = Err(e)
    /\ dpc' = "done"
    /\ dsent' = Sent("err")
    /\ UNCHANGED getVars

\* get has returned to the constructor: `get(url)?`, the test of the status,
\* `req.text()?`, and for LightNovelWorld the second get of
\* format!("{}/chapters", url).
AfterFetch ==
    /\ dpc \in {"fetch1", "fetch2"}
    /\ gpc = "done"
    /\ IF result = "err_net" THEN ConstructorFails(NetError)
       ELSE IF result = "err_rate_limit" THEN ConstructorFails(RequestFailed)
       ELSE \E bodyRead \in BOOLEAN :
              IF ~bodyRead THEN ConstructorFails(NetError)
              ELSE IF ~is_success(lastStatus) THEN ConstructorFails(RequestFailed)
              ELSE IF dkind = "LightNovelWorld" /\ dpc = "fetch1"
              THEN /\ dpc' = "fetch2"
                   /\ dsent' = Append(Sent("ok"), [path |-> "/chapters", outcome |-> "pending"])
                   /\ dret' = dret
                   /\ gpc' = "idle"
                   /\ fib' = FibonacciIterator_new
                   /\ requests' = 0
                   /\ n429' = 0
                   /\ lastStatus' = 0
                   /\ waits' = <<>>
                   /\ result' = "none"
              ELSE /\ dret' = Ok(Instance(dkind, durl))
                   /\ dpc' = "done"
                   /\ dsent' = Sent("ok")
                   /\ UNCHANGED getVars
    /\ UNCHANGED <<durl, dvia, dvi, dwalk, dkind, dctors>>
    /\ UNCHANGED <<backendVars, codecVars, orderVars, siteVars, fibVars>>

InitConstruct ==
    GetIdle /\ BackendIdle /\ CodecIdle /\ DispIdle /\ OrderIdle /\ SiteIdle /\ FibIdle

NextConstruct ==
    BackendsNewCall \/ DirectNewCall \/ WalkStep \/ WalkReturn \/ FetchStep \/ AfterFetch

SpecConstruct == InitConstruct /\ [][NextConstruct]_vars

-----------------------------------------------------------------------------
(* Properties of construction *)

Registered == {"RoyalRoad", "LibRead", "FreeWebNovel"}

\* The registered kinds with a pattern that matches the url.
Matching(url) == {k \in Registered : AnyMatch(get_backend_regexps(k), url)}

\* Registration order: Dumb, RoyalRoad, LibRead, FreeWebNovel.
Rank(k) ==
    CASE k = "Dumb" -> 0
      [] k = "RoyalRoad" -> 1
      [] k = "LibRead" -> 2
      [] k = "FreeWebNovel" -> 3

\* C11: Backends::new tests the kinds in registration order; the only
\* constructor it calls is that of the earliest kind with a matching
\* pattern, and a backend it returns is of that kind.
C11_EarliestKindWins ==
    dvia = "Backends::new" =>
        /\ \A j \in 1..Len(dwalk) : Rank(dwalk[j]) = j - 1
        /\ Len(dctors) <= 1
        /\ \A j \in 1..Len(dctors) :
             /\ dctors[j] \in Matching(durl)
             /\ \A k \in Matching(durl) : Rank(dctors[j]) <= Rank(k)
        /\ (dpc = "done" /\ Matching(durl) # {}) => Len(dctors) = 1
        /\ dret.kind = "ok" => dret.value = Instance(dctors[1], durl)

C11_Witness ==
    /\ dvia = "Backends::new"
    /\ durl = <<FW_PIECE, LR_PIECE>>
    /\ Matching(durl) = {"LibRead", "FreeWebNovel"}
    /\ dpc = "done"
    /\ dctors = <<"LibRead">>
    /\ dret = Ok(Instance("LibRead", durl))

\* C12: Backends::new returns NoMatchingBackendFound(url), with the url
\* given, exactly when no registered kind has a pattern matching the url;
\* then no constructor was called and no request was sent.
C12_NoMatchingBackend ==
    (dvia = "Backends::new" /\ dpc = "done") =>
        /\ (dret = Err(NoMatchingBackendFound(durl))) <=> (Matching(durl) = {})
        /\ (dret.kind = "err" /\ dret.error.type = "NoMatchingBackendFound")
              => dret.error.url = durl
        /\ Matching(durl) = {} =>
              /\ dctors = <<>>
              /\ dsent = <<>>
              /\ requests = 0

C12_Witness ==
    /\ dvia = "Backends::new"
    /\ dpc = "done"
    /\ durl = <<OTHER_PIECE, LNW_PIECE>>
    /\ dwalk = Variants
    /\ dret = Err(NoMatchingBackendFound(durl))

\* The server's answer to the fetch under way is one that ends it without a
\* page: a status that is neither a success nor 429, or the 429 get gives
\* up on; the body of that answer could be read.
FetchAnsweredNonSuccess ==
    /\ dpc \in {"fetch1", "fetch2", "done"}
    /\ lastStatus # 0
    /\ ~is_success(lastStatus)
    /\ lastStatus = TOO_MANY_REQUESTS => gpc = "done"
    /\ result # "err_net"

\* C13: a constructor whose initial fetch is answered with a non-success
\* status returns RequestFailed and no instance, and makes no further fetch
\* (the state in which get has returned and the constructor has not yet
\* looked at the result is left aside).
C13_ConstructRequestFailed ==
    (FetchAnsweredNonSuccess /\ ~(gpc = "done" /\ dpc # "done")) =>
        /\ dpc = "done"
        /\ dret = Err(RequestFailed)
        /\ dsent[Len(dsent)].outcome = "err"
        /\ \A j \in 1..(Len(dsent) - 1) : dsent[j].outcome = "ok"

-----------------------------------------------------------------------------
(* lib.rs: from_str on texts that to_string did not necessarily write *)

\* Lines put together, each but the last followed by a line break.
RECURSIVE JoinLines(_)
JoinLines(lines) ==
    IF lines = <<>> THEN <<>>
    ELSE IF Len(lines) = 1 THEN Head(lines)
    ELSE Head(lines) \o <<NL>> \o JoinLines(Tail(lines))

\* A field line of the header, "key: value".
FieldLine(key, value) == <<key, ":", " ">> \o value

\* What a header may hold for each field: no line (<<>>), or one line.
IndexLines == {<<>>, <<FieldLine("index", <<"7">>)>>, <<FieldLine("index", <<"x">>)>>}

ChapterUrlLines == {<<>>, <<FieldLine("chapter_url", <<"u">>)>>}

FictionUrlLines == {<<>>, <<FieldLine("fiction_url", <<"f">>)>>}

PublishedAtLines ==
    {<<>>,
     <<FieldLine("published_at", <<"not_found">>)>>,
     <<FieldLine("published_at", to_rfc3339(7))>>,
     <<FieldLine("published_at", <<"j", "u", "n", "k">>)>>}

\* The lines that may follow "metadata:": entries indented by two spaces, a
\* blank line, a line that is not indented, indented lines named as fields.
BlockLinePool ==
    {<<" ", " ">> \o FieldLine("k", <<"v">>),
     <<>>,
     FieldLine("j", <<"w">>),
     <<" ", " ">> \o FieldLine("index", <<"9">>),
     <<" ", " ">> \o FieldLine("chapter_url", <<"z">>)}

BlockLines == Strs(BlockLinePool, MaxBlockLines)

\* The body after the header: the content div, or nothing.
BodyLines == {<<>>, <<<<DIV_OPEN>>, <<"p">>, <<DIV_CLOSE>>>>}

ParseTexts ==
    {JoinLines(<<<<COMMENT_OPEN>>>> \o i \o c \o f \o p
                  \o <<<<"metadata", ":">>>> \o b \o <<<<COMMENT_CLOSE>>>> \o d) :
        i \in IndexLines, c \in ChapterUrlLines, f \in FictionUrlLines,
        p \in PublishedAtLines, b \in BlockLines, d \in BodyLines}

InitParse ==
    /\ GetIdle
    /\ BackendIdle
    /\ DispIdle
    /\ SiteIdle
    /\ FibIdle
    /\ OrderIdle
    /\ chap = <<>>
    /\ cpc = "encoded"
    /\ text \in ParseTexts
    /\ decoded = [kind |-> "none"]

NextParse == Decode

SpecParse == InitParse /\ [][NextParse]_vars

-----------------------------------------------------------------------------
(* Properties of from_str *)

\* The lines of a text after its "<!--" line and before its "-->" line.
HeaderOf(s) ==
    LET ls == Lines(s)
        close == CHOOSE i \in 1..Len(ls) :
                    ls[i] = <<COMMENT_CLOSE>> /\ \A j \in 1..(i - 1) : ls[j] # <<COMMENT_CLOSE>>
    IN SubSeq(ls, 2, close - 1)

HasColon(line) == \E i \in 1..Len(line) : line[i] = ":"

IsBlockStart(line) == StartsWith(line, <<"metadata", ":">>)

Indented(line) == StartsWith(line, <<" ", " ">>)

KeyOf(line) == Trim(SplitN2(Trim(line))[1])

ValueOf(line) == Trim(SplitN2(Trim(line))[2])

\* Line i of header h is a member of a metadata block: it is indented, and
\* so is every line between it and a "metadata:" line before it.
IsMember(h, i) ==
    /\ Indented(h[i])
    /\ \E m \in 1..(i - 1) : IsBlockStart(h[m]) /\ \A j \in (m + 1)..i : Indented(h[j])

\* The lines "key: value" of header h outside its metadata blocks.
FieldLinesOf(h, key) ==
    {i \in 1..Len(h) : /\ HasColon(h[i])
                       /\ ~IsBlockStart(h[i])
                       /\ ~IsMember(h, i)
                       /\ KeyOf(h[i]) = <<key>>}

\* h without its line i.
WithoutLine(h, i) == SubSeq(h, 1, i - 1) \o SubSeq(h, i + 1, Len(h))

IsParseError(r) == r.kind = "err" /\ r.error.type = "ChapterParseError"

C15_PublishedAtParsedOrFails ==
    cpc = "decoded" =>
        LET h == HeaderOf(text) IN
        \A i \in FieldLinesOf(h, "published_at") :
            (\A j \in FieldLinesOf(h, "published_at") : j <= i) =>
                IF ValueOf(h[i]) = <<"not_found">>
                THEN decoded.kind = "ok" => decoded.value.published_at = <<>>
                ELSE IF parse_from_rfc3339(ValueOf(h[i])) # <<>>
                THEN decoded.kind = "ok" =>
                        decoded.value.published_at = parse_from_rfc3339(ValueOf(h[i]))
                ELSE decoded.kind # "ok"

\* C16: the metadata of the Chapter read are the "key: value" lines that
\* are members of a metadata block, and an indented line after the end of
\* the block has no effect on what from_str returns.
C16_MetadataBlock ==
    cpc = "decoded" =>
        LET ls == Lines(text)
            h == HeaderOf(text)
        IN
        /\ decoded.kind = "ok" =>
              /\ DOMAIN decoded.value.metadata =
                    {KeyOf(h[i]) : i \in {j \in 1..Len(h) : IsMember(h, j) /\ HasColon(h[j])}}
              /\ \A i \in 1..Len(h) :
                    (IsMember(h, i) /\ HasColon(h[i])) =>
                        \E j \in i..Len(h) :
                            /\ IsMember(h, j)
                            /\ KeyOf(h[j]) = KeyOf(h[i])
                            /\ decoded.value.metadata[KeyOf(h[i])] = ValueOf(h[j])
        /\ \A i \in 1..Len(h) :
              (Indented(h[i]) /\ ~IsMember(h, i)) =>
                  from_str(JoinLines(WithoutLine(ls, i + 1))) = decoded

-----------------------------------------------------------------------------
(* Properties of to_string *)

\* The lines of the layout of chapter c, its metadata listed as in keys.
LayoutLines(c, keys) ==
    << <<COMMENT_OPEN>>,
       FieldLine("index", FormatNat(c.index)),
       FieldLine("chapter_url", c.chapter_url),
       FieldLine("fiction_url", c.fiction_url),
       FieldLine("published_at",
                 IF c.published_at = <<>> THEN <<"not_found">>
                 ELSE to_rfc3339(c.published_at[1])),
       <<"metadata", ":">> >>
    \o [i \in 1..Len(keys) |-> <<" ", " ">> \o keys[i] \o <<":", " ">> \o c.metadata[keys[i]]]
    \o << <<COMMENT_CLOSE>> >>
    \o (IF c.title = <<>> THEN <<>> ELSE << <<H1_OPEN>> \o c.title[1] \o <<H1_CLOSE>> >>)
    \o << <<DIV_OPEN>>, c.content, <<DIV_CLOSE>> >>

\* C17: the text written for a chapter is the layout: the opening line, the
\* four field lines in their order, "metadata:", one indented line for each
\* metadata entry, the closing line, the title line if there is a title,
\* and the content between the two lines of its div.
C17_CanonicalLayout ==
    cpc \in {"encoded", "decoded"} =>
        \E keys \in [1..Cardinality(DOMAIN chap.metadata) -> DOMAIN chap.metadata] :
            /\ \A k \in DOMAIN chap.metadata : \E i \in DOMAIN keys : keys[i] = k
            /\ text = JoinLines(LayoutLines(chap, keys))

C17_Witness ==
    /\ cpc = "encoded"
    /\ chap.title # <<>>
    /\ chap.published_at # <<>>
    /\ DOMAIN chap.metadata # {}
    /\ Len(Lines(text)) >= 11

-----------------------------------------------------------------------------
(* backends: get_ordering_function of each implementation, slice::sort_by *)

\* std::cmp::Ordering
Orderings == {"Less", "Equal", "Greater"}

\* Ord::cmp of two integers
CmpInt(x, y) == IF x < y THEN "Less" ELSE IF x = y THEN "Equal" ELSE "Greater"

\* Ord::cmp of two Option values: None is less than every Some.
CmpOption(x, y) ==
    IF x = <<>> /\ y = <<>> THEN "Equal"
    ELSE IF x = <<>> THEN "Less"
    ELSE IF y = <<>> THEN "Greater"
    ELSE CmpInt(x[1], y[1])

\* A digit of another script (U+0663): the regex class \d holds it,
\* u32::from_str does not read it.
ARABIC_THREE == "U+0663"

\* The class \d of the regex crate.
IsRegexDigit(t) == IsDigit(t) \/ t = ARABIC_THREE

\* u32::MAX, digit by digit
U32_MAX_DIGITS == <<"4", "2", "9", "4", "9", "6", "7", "2", "9", "5">>

RECURSIVE StripZeros(_)
StripZeros(s) == IF Len(s) > 1 /\ Head(s) = "0" THEN StripZeros(Tail(s)) ELSE s

\* For digit strings of one length: a is at most b.
RECURSIVE DigitsLeq(_, _)
DigitsLeq(a, b) ==
    IF a = <<>> THEN TRUE
    ELSE IF DigitValue(Head(a)) # DigitValue(Head(b))
    THEN DigitValue(Head(a)) < DigitValue(Head(b))
    ELSE DigitsLeq(Tail(a), Tail(b))

\* str::parse::<u32>().ok() of what (\d+) captured: None for a digit that is
\* not ASCII and for a number above u32::MAX.
ParseU32(s) ==
    IF s = <<>> \/ \E i \in 1..Len(s) : ~IsDigit(s[i]) THEN <<>>
    ELSE LET d == StripZeros(s) IN
         IF Len(d) > Len(U32_MAX_DIGITS) THEN <<>>
         ELSE IF Len(d) = Len(U32_MAX_DIGITS) /\ ~DigitsLeq(d, U32_MAX_DIGITS) THEN <<>>
         ELSE <<DigitsValue(d, 0)>>

\* The places of a title where "Chapter (\d+)" matches.
MatchStarts(title) ==
    {i \in 1..(Len(title) - 2) :
        title[i] = "Chapter" /\ title[i + 1] = " " /\ IsRegexDigit(title[i + 2])}

\* The digits from place i on, as many as there are.
RECURSIVE DigitRun(_, _)
DigitRun(title, i) ==
    IF i <= Len(title) /\ IsRegexDigit(title[i])
    THEN <<title[i]>> \o DigitRun(title, i + 1)
    ELSE <<>>

\* A reader of the first digit only, "Chapter (\d)".
parse_chapter_id_OneDigit(chapter_title) ==
    IF MatchStarts(chapter_title) = {} THEN <<>>
    ELSE LET i == CHOOSE m \in MatchStarts(chapter_title) :
                      \A n \in MatchStarts(chapter_title) : m <= n
         IN ParseU32(<<chapter_title[i + 2]>>)

\* parse_chapter_id: group 1 of the leftmost match, parsed.
parse_chapter_id(chapter_title) ==
    IF MatchStarts(chapter_title) = {} THEN <<>>
    ELSE LET i == CHOOSE m \in MatchStarts(chapter_title) :
                      \A n \in MatchStarts(chapter_title) : m <= n
         IN ParseU32(DigitRun(chapter_title, i + 2))

\* c.title().clone().and_then(|title| parse_chapter_id(title.as_str()))
chapter_number(c) == IF c.title = <<>> THEN <<>> ELSE parse_chapter_id(c.title[1])

\* A comparator reading the index.
ByIndex(c1, c2) == CmpInt(c1.index, c2.index)

\* RoyalRoad::get_ordering_function()
RoyalRoad_get_ordering_function(c1, c2) == CmpOption(c1.published_at, c2.published_at)

\* FreeWebNovel::get_ordering_function()
FreeWebNovel_get_ordering_function(c1, c2) ==
    CmpOption(chapter_number(c1), chapter_number(c2))

\* LibRead::get_ordering_function()
LibRead_get_ordering_function(c1, c2) == FreeWebNovel_get_ordering_function(c1, c2)

\* The variants of Backends that give an ordering function.
OrderedKinds == {"RoyalRoad", "LibRead", "FreeWebNovel"}

\* Backends::get_ordering_function(&self), applied to two chapters
get_ordering_function(k, c1, c2) ==
    CASE k = "RoyalRoad" -> RoyalRoad_get_ordering_function(c1, c2)
      [] k = "LibRead" -> LibRead_get_ordering_function(c1, c2)
      [] k = "FreeWebNovel" -> FreeWebNovel_get_ordering_function(c1, c2)

\* One step of a stable sort: x goes after the elements that are not
\* greater than it.
RECURSIVE InsertSorted(_, _, _)
InsertSorted(k, sorted, x) ==
    IF sorted = <<>> THEN <<x>>
    ELSE IF get_ordering_function(k, x, sorted[Len(sorted)]) = "Less"
    THEN Append(InsertSorted(k, SubSeq(sorted, 1, Len(sorted) - 1), x), sorted[Len(sorted)])
    ELSE Append(sorted, x)

\* chapters.sort_by(get_ordering_function()): a stable sort.
RECURSIVE sort_by(_, _)
sort_by(k, chapters) ==
    IF chapters = <<>> THEN <<>>
    ELSE InsertSorted(k, sort_by(k, SubSeq(chapters, 1, Len(chapters) - 1)),
                      chapters[Len(chapters)])

\* The titles of the chapters compared.
OrderTitles ==
    {<<>>,
     <<<<"Chapter", " ", "1">>>>,
     <<<<"Chapter", " ", "2", ":", " ", "x">>>>,
     <<<<"Chapter", " ", "1", "2">>>>,
     <<<<"P">>>>,
     <<<<"Chapter", " ", ARABIC_THREE>>>>,
     <<<<"Chapter", " ", "4", "2", "9", "4", "9", "6", "7", "2", "9", "6">>>>}

\* The chapters of a backend of kind k, as far as its comparator goes:
\* those of RoyalRoad differ in their timestamp, the others in their title.
OrderChapters(k) ==
    IF k = "RoyalRoad"
    THEN {[Chapter_default EXCEPT !.published_at = p] :
            p \in {<<>>} \cup {<<t>> : t \in 1..MaxSort}}
    ELSE {[Chapter_default EXCEPT !.title = t] : t \in OrderTitles}

\* The chapters to sort, in any arrangement; their indexes are the
\* positions 1, 2, ... of a listing, which run along the arrangement or
\* against it.
InitOrder ==
    /\ GetIdle
    /\ BackendIdle
    /\ CodecIdle
    /\ DispIdle
    /\ SiteIdle
    /\ FibIdle
    /\ okind \in OrderedKinds
    /\ \E n \in 2..MaxSort, up \in BOOLEAN :
          \E chapters \in [1..n -> OrderChapters(okind)] :
              oin = [i \in 1..n |->
                        [chapters[i] EXCEPT !.index = IF up THEN i ELSE n + 1 - i]]
    /\ opc = "start"
    /\ ocmp = <<>>
    /\ oout = <<>>

\* The comparator applied to the first two chapters, and to the two with
\* other indexes.
Compare ==
    /\ opc = "start"
    /\ \E i1, i2 \in {1, MaxChapters} :
          LET c1 == oin[1]
              c2 == oin[2]
              d1 == [c1 EXCEPT !.index = i1]
              d2 == [c2 EXCEPT !.index = i2]
          IN ocmp' = <<[c1 |-> c1, c2 |-> c2,
                        ordering |-> get_ordering_function(okind, c1, c2)],
                       [c1 |-> d1, c2 |-> d2,
                        ordering |-> get_ordering_function(okind, d1, d2)]>>
    /\ opc' = "compared"
    /\ UNCHANGED <<okind, oin, oout>>
    /\ UNCHANGED <<getVars, backendVars, codecVars, dispVars, siteVars, fibVars>>

\* chapters.sort_by(get_ordering_function())
Sort ==
    /\ opc = "start"
    /\ oout' = sort_by(okind, oin)
    /\ opc' = "sorted"
    /\ UNCHANGED <<okind, oin, ocmp>>
    /\ UNCHANGED <<getVars, backendVars, codecVars, dispVars, siteVars, fibVars>>

NextOrder == Compare \/ Sort

SpecOrder == InitOrder /\ [][NextOrder]_vars

-----------------------------------------------------------------------------
(* Properties of the ordering functions *)

\* The attribute of a chapter that the comparator of kind k reads.
StableAttribute(k, c) == IF k = "RoyalRoad" THEN c.published_at ELSE chapter_number(c)

\* The arrangements of the chapters of s.
Arrangements(s) ==
    {[i \in 1..Len(s) |-> s[p[i]]] :
        p \in {q \in [1..Len(s) -> 1..Len(s)] :
                 \A i, j \in 1..Len(s) : i # j => q[i] # q[j]}}

\* The number that a title shows to its reader, for the titles with one not
\* above u32::MAX written in ASCII digits.
TitleNumber(title) ==
    CASE title = <<"Chapter", " ", "1">> -> <<1>>
      [] title = <<"Chapter", " ", "2", ":", " ", "x">> -> <<2>>
      [] title = <<"Chapter", " ", "1", "2">> -> <<12>>
      [] OTHER -> <<>>

\* The place of a chapter in its source: its time of publication on
\* RoyalRoad, the number of its title elsewhere.
SourcePlace(k, c) ==
    IF k = "RoyalRoad" THEN c.published_at
    ELSE IF c.title = <<>> THEN <<>> ELSE TitleNumber(c.title[1])

\* Every chapter of s has a place in its source, and no two have the same.
AttributesDistinct(k, s) ==
    /\ \A i \in 1..Len(s) : SourcePlace(k, s[i]) # <<>>
    /\ \A i, j \in 1..Len(s) : i # j => SourcePlace(k, s[i]) # SourcePlace(k, s[j])

\* C18: the comparator gives two chapters the ordering it gives the same
\* two chapters with other values of index.
C18_IndexIndependent ==
    opc = "compared" =>
        /\ \A f \in {"title", "content", "chapter_url", "fiction_url",
                     "published_at", "metadata"} :
              ocmp[2].c1[f] = ocmp[1].c1[f] /\ ocmp[2].c2[f] = ocmp[1].c2[f]
        /\ ocmp[2].ordering = ocmp[1].ordering

C18_Witness ==
    /\ opc = "compared"
    /\ okind = "FreeWebNovel"
    /\ ocmp[1].c1.index < ocmp[1].c2.index
    /\ ocmp[2].c1.index > ocmp[2].c2.index
    /\ ocmp[1].ordering = "Greater"
    /\ ocmp[2].ordering = "Greater"

C20_UnparseableLargest ==
    opc = "compared" =>
        LET a1 == StableAttribute(okind, ocmp[1].c1)
            a2 == StableAttribute(okind, ocmp[1].c2)
        IN
        /\ ocmp[1].ordering \in Orderings
        /\ (a1 = <<>> /\ a2 # <<>>) => ocmp[1].ordering = "Greater"
        /\ (a1 # <<>> /\ a2 = <<>>) => ocmp[1].ordering = "Less"
        /\ (a1 = <<>> /\ a2 = <<>>) => ocmp[1].ordering = "Equal"

-----------------------------------------------------------------------------
(* backends: get_chapter_list and get_chapter_count of each implementation *)

\* What the last entry of a listing page may lack: the href or the title
\* attribute of its <a>, its span.chapter-no, or a number inside that span.
Flaws(k) ==
    IF k = "LightNovelWorld" THEN {"none", "span", "number", "title"}
    ELSE {"none", "href", "title"}

\* A listing page that the site does not serve.
NotServed == [len |-> 0, flaw |-> "fail"]

\* The entries of one listing page: how many, and what the last one lacks.
PageShapes(k) ==
    {[len |-> 0, flaw |-> "none"]}
        \cup {[len |-> n, flaw |-> f] : n \in 1..MaxEntries, f \in Flaws(k)}

\* The title of entry n of listing page p.
EntryTitle(p, n) == <<"title", p, n>>

\* .enumerate().map(|(index, elem)| (index + 1, title)).collect()
Enumerated(shape) ==
    [n \in 1..shape.len |-> [index |-> n, title |-> EntryTitle(1, n)]]

\* RoyalRoad::get_chapter_list: the title is the text of the <a>.
RoyalRoad_get_chapter_list(page) == Ok(Enumerated(page.entries))

\* RoyalRoad::get_chapter_count: select.attr("href").unwrap() on each <a>.
RoyalRoad_get_chapter_count(page) ==
    IF page.entries.flaw = "href" THEN NoReturn("unwrap") ELSE Ok(page.entries.len)

\* freewebnovel::get_chapter_list: elem.attr("title").unwrap() on each <a>.
freewebnovel_get_chapter_list(page) ==
    IF page.entries.flaw = "title" THEN NoReturn("unwrap")
    ELSE Ok(Enumerated(page.entries))

\* freewebnovel::chapter_count: select.attr("href").unwrap() on each <a>.
freewebnovel_chapter_count(page) ==
    IF page.entries.flaw = "href" THEN NoReturn("unwrap") ELSE Ok(page.entries.len)

\* The entries of the listing pages before page p of the site.
RECURSIVE EntriesBefore(_, _)
EntriesBefore(site, p) ==
    IF p <= 1 \/ p - 1 > Len(site.pages) THEN 0
    ELSE site.pages[p - 1].len + EntriesBefore(site, p - 1)

\* LightNovelWorld::get_chapter_list, the closure given to map: the number of
\* an entry is the one the site shows in its span.chapter-no.
page_chapters(site, cur) ==
    IF cur.entries.flaw # "none" THEN NoReturn("unwrap")
    ELSE Ok([n \in 1..cur.entries.len |->
                [index |-> site.first + EntriesBefore(site, cur.p) + n - 1,
                 title |-> EntryTitle(cur.p, n)]])

\* `i < chapter_pages_count`, the count being usize::MAX after a wrap.
Below(i, pages_count) == pages_count.wrapped \/ i < pages_count.n

\* What the site answers to the request for listing page p: the page, an
\* empty page beyond its last one, or no page.
Answer(site, p) ==
    IF p <= Len(site.pages) THEN site.pages[p]
    ELSE IF site.beyond = "empty" THEN [len |-> 0, flaw |-> "none"]
    ELSE NotServed

\* The sites: listing pages 1..P, each with its entries or not served, the
\* number of the first chapter, and the answer beyond page P.
Sites(k) ==
    IF k = "LightNovelWorld"
    THEN {[pages |-> <<first>> \o rest, first |-> f, beyond |-> b] :
            first \in PageShapes(k),
            rest \in UNION {[1..n -> PageShapes(k) \cup {NotServed}] : n \in 0..(MaxPages - 1)},
            f \in {1, 2},
            b \in {"empty", "fail"}}
    ELSE {[pages |-> <<first>>, first |-> 1, beyond |-> "fail"] : first \in PageShapes(k)}

\* The items of ul.pagination on the first listing page of a site of P
\* pages: one for each page and the "next" button; none, or these two, when
\* the listing has a single page. The other sites do not paginate.
PaginationItems(k, P) ==
    IF k # "LightNovelWorld" THEN {0}
    ELSE IF P = 1 THEN {0, 2}
    ELSE {P + 1}

InitList ==
    /\ GetIdle
    /\ BackendIdle
    /\ CodecIdle
    /\ DispIdle
    /\ OrderIdle
    /\ FibIdle
    /\ skind \in Kinds
    /\ surl \in Urls
    /\ ssite \in Sites(skind)
    /\ \E items \in PaginationItems(skind, Len(ssite.pages)) :
          /\ spage = [entries |-> ssite.pages[1], pagination |-> items]
          /\ sbuild \in IF items = 0 /\ skind = "LightNovelWorld"
                        THEN {"debug", "release"} ELSE {"debug"}
    /\ sop = "none"
    /\ spc = "idle"
    /\ sidx = 0
    /\ scnt = [wrapped |-> FALSE, n |-> 0]
    /\ scur = [p |-> 0, entries |-> [len |-> 0, flaw |-> "none"]]
    /\ sacc = <<>>
    /\ sreqs = <<>>
    /\ slist = [kind |-> "none"]
    /\ scount = [kind |-> "none"]
    /\ sident = [kind |-> "none"]
    /\ stwin = [page |-> <<>>, ident |-> [kind |-> "none"]]

\* The call under way returns r (or, with a NoReturn, does not).
ListReturns(r) ==
    /\ IF sop = "list"
       THEN slist' = r /\ UNCHANGED scount
       ELSE /\ scount' = IF r.kind = "ok" THEN Ok(Len(r.value)) ELSE r
            /\ UNCHANGED slist
    /\ sop' = "none"
    /\ spc' = "idle"

\* get_chapter_list() or get_chapter_count() of RoyalRoad, FreeWebNovel and
\* LibRead: both read the page held since the construction.
CallOnPage ==
    /\ spc = "idle"
    /\ skind \in {"RoyalRoad", "FreeWebNovel", "LibRead"}
    /\ \/ /\ slist.kind = "none"
          /\ slist' = IF skind = "RoyalRoad" THEN RoyalRoad_get_chapter_list(spage)
                      ELSE freewebnovel_get_chapter_list(spage)
          /\ UNCHANGED scount
       \/ /\ scount.kind = "none"
          /\ scount' = IF skind = "RoyalRoad" THEN RoyalRoad_get_chapter_count(spage)
                       ELSE freewebnovel_chapter_count(spage)
          /\ UNCHANGED slist
    /\ UNCHANGED <<skind, surl, spage, ssite, sbuild, sop, spc, sidx, scnt, scur, sacc,
                   sreqs, sident, stwin>>
    /\ UNCHANGED <<getVars, backendVars, codecVars, dispVars, orderVars, fibVars>>

\* LightNovelWorld::get_chapter_list(), up to its loop; get_chapter_count()
\* is the default of the trait, which calls it. With no pagination item the
\* subtraction overflows: a panic where overflow is checked, usize::MAX
\* where it is not.
ListCall ==
    /\ spc = "idle"
    /\ skind = "LightNovelWorld"
    /\ \E op \in {"list", "count"} :
          /\ (IF op = "list" THEN slist ELSE scount).kind = "none"
          /\ sop' = op
    /\ sidx' = 1
    /\ scur' = [p |-> 1, entries |-> spage.entries]
    /\ sacc' = <<>>
    /\ IF spage.pagination = 0
       THEN IF sbuild = "release"
            THEN scnt' = [wrapped |-> TRUE, n |-> 0] /\ spc' = "loop"
            ELSE scnt' = [wrapped |-> FALSE, n |-> 0] /\ spc' = "overflow"
       ELSE scnt' = [wrapped |-> FALSE, n |-> spage.pagination - 1] /\ spc' = "loop"
    /\ UNCHANGED <<skind, surl, spage, ssite, sbuild, sreqs, slist, scount, sident, stwin>>
    /\ UNCHANGED <<getVars, backendVars, codecVars, dispVars, orderVars, fibVars>>

\* The panic of the subtraction.
ListOverflow ==
    /\ spc = "overflow"
    /\ ListReturns(NoReturn("overflow"))
    /\ UNCHANGED <<skind, surl, spage, ssite, sbuild, sidx, scnt, scur, sacc, sreqs, sident, stwin>>
    /\ UNCHANGED <<getVars, backendVars, codecVars, dispVars, orderVars, fibVars>>

\* One turn of the loop: the entries of current_page are added to chapters;
\* then the next page is requested, or the loop left.
ListStep ==
    /\ spc = "loop"
    /\ sidx <= MaxPages + 1
    /\ LET pc == page_chapters(ssite, scur) IN
       IF pc.kind # "ok"
       THEN /\ ListReturns(pc)
            /\ UNCHANGED <<sidx, scur, sacc, sreqs>>
       ELSE IF Below(sidx, scnt)
       THEN /\ sidx' = sidx + 1
            /\ sreqs' = Append(sreqs, sidx + 1)
            /\ sacc' = sacc \o pc.value
            /\ IF Answer(ssite, sidx + 1) = NotServed
               THEN /\ \E g \in {"err_net", "err_rate_limit", "no_return"} :
                          ListReturns(FetchFailure([get |-> g, page |-> "none"]))
                    /\ UNCHANGED scur
               ELSE /\ scur' = [p |-> sidx + 1, entries |-> Answer(ssite, sidx + 1)]
                    /\ UNCHANGED <<sop, spc, slist, scount>>
       ELSE /\ ListReturns(Ok(sacc \o pc.value))
            /\ sacc' = sacc \o pc.value
            /\ UNCHANGED <<sidx, scur, sreqs>>
    /\ UNCHANGED <<skind, surl, spage, ssite, sbuild, scnt, sident, stwin>>
    /\ UNCHANGED <<getVars, backendVars, codecVars, dispVars, orderVars, fibVars>>

NextList == CallOnPage \/ ListCall \/ ListOverflow \/ ListStep

SpecList == InitList /\ [][NextList]_vars

-----------------------------------------------------------------------------
(* Properties of get_chapter_list and get_chapter_count *)

\* The call aborted the thread (the calls that wait on get for ever apart).
Aborted(r) == r.kind = "no_return" /\ r.why # "get"

\* The titles of the entries of pages p..P of a site, in order.
RECURSIVE TitlesFrom(_, _)
TitlesFrom(site, p) ==
    IF p > Len(site.pages) THEN <<>>
    ELSE [n \in 1..site.pages[p].len |-> EntryTitle(p, n)] \o TitlesFrom(site, p + 1)

\* C21: when get_chapter_list() and get_chapter_count() have both been
\* called on an instance, either both aborted or neither, and when both
\* returned a value the count is the length of the list.
C21_CountEqualsListLength ==
    (spc = "idle" /\ slist.kind # "none" /\ scount.kind # "none") =>
        /\ Aborted(slist) <=> Aborted(scount)
        /\ (slist.kind = "ok" /\ scount.kind = "ok") => scount.value = Len(slist.value)

\* C24: get_chapter_list() of LightNovelWorld requests no listing page beyond
\* the last one, does not abort on its count of pages, and the list it
\* returns holds the entries of pages 1..P in order, pages 2..P having been
\* requested once each, in order.
C24_PagesConcatenated ==
    skind = "LightNovelWorld" =>
        /\ \A r \in DOMAIN sreqs : sreqs[r] <= Len(ssite.pages)
        /\ ~(slist.kind = "no_return" /\ slist.why = "overflow")
        /\ (slist.kind = "ok" /\ scount.kind = "none" /\ sop = "none") =>
              /\ [n \in DOMAIN slist.value |-> slist.value[n].title] = TitlesFrom(ssite, 1)
              /\ sreqs = [r \in 1..(Len(ssite.pages) - 1) |-> r + 1]

\* C26: the list get_chapter_list() returns has index p + 1 at its 0-based
\* position p.
C26_ListIndexIsPosition ==
    slist.kind = "ok" => \A n \in DOMAIN slist.value : slist.value[n].index = n

-----------------------------------------------------------------------------
(* backends: immutable_identifier of each implementation *)

\* A url is a sequence of tokens: "a" a letter, "1" a digit, and the pieces
\* "-", "/", "?", ".html", after the fixed start that the pattern of the
\* kind spells out.
UrlStart(k) ==
    IF k = "RoyalRoad" THEN <<"https:", "/", "/", "www.royalroad.com", "/", "fiction", "/">>
    ELSE IF k = "FreeWebNovel" THEN <<"https:", "/", "/", "freewebnovel.com", "/">>
    ELSE IF k = "LibRead" THEN <<"https:", "/", "/", "libread.com", "/", "libread", "/">>
    ELSE <<"https:", "/", "/", "www.lightnovelworld.com", "/", "novel", "/">>

UrlTokens == {"a", "1", "-", "/", "?", ".html"}

IsUrlDigit(t) == t = "1"                 \* \d
IsUrlWord(t) == t \in {"a", "1"}         \* \w
IsUrlSlug(t) == t \in {"a", "1", "-"}    \* [\w\-], [a-z0-9\-]

\* The longest run of tokens of a class at the start of a token sequence
\* (a greedy `+`).
RECURSIVE RunOf(_, _)
RunOf(toks, cls) ==
    IF toks = <<>> \/ Head(toks) \notin cls THEN <<>>
    ELSE <<Head(toks)>> \o RunOf(Tail(toks), cls)

Drop(toks, n) == SubSeq(toks, n + 1, Len(toks))

\* url.split('/').last(): what follows the last '/'.
RECURSIVE LastSegment(_)
LastSegment(url) ==
    IF url = <<>> \/ url[Len(url)] = "/" THEN <<>>
    ELSE LastSegment(SubSeq(url, 1, Len(url) - 1)) \o <<url[Len(url)]>>

\* What precedes the last '/' of a url that has one.
BeforeLastSlash(url) == SubSeq(url, 1, Len(url) - Len(LastSegment(url)) - 1)

ParseError(what) == [type |-> "ParseError", message |-> what]

\* RoyalRoad::immutable_identifier: the captures of the pattern
\* fiction/(?<fiction_id>\d+)/(?<fiction_title_slug>[\w\-]+).
RoyalRoad_immutable_identifier(url) ==
    LET rest == Drop(url, Len(UrlStart("RoyalRoad")))
        fiction_id == RunOf(rest, {t \in UrlTokens : IsUrlDigit(t)})
        after == Drop(rest, Len(fiction_id))
        fiction_title == IF after = <<>> THEN <<>>
                         ELSE RunOf(Tail(after), {t \in UrlTokens : IsUrlSlug(t)})
    IN
    IF /\ SubSeq(url, 1, Len(UrlStart("RoyalRoad"))) = UrlStart("RoyalRoad")
       /\ fiction_id # <<>>
       /\ after # <<>> /\ Head(after) = "/"
       /\ fiction_title # <<>>
    THEN Ok(fiction_title \o <<"-">> \o fiction_id)
    ELSE Err(ParseError("Unable to parse URL"))

\* FreeWebNovel::immutable_identifier:
\* url.split('/').last().unwrap().strip_suffix(".html").unwrap()
FreeWebNovel_immutable_identifier(url) ==
    LET last == LastSegment(url) IN
    IF last # <<>> /\ last[Len(last)] = ".html"
    THEN Ok(SubSeq(last, 1, Len(last) - 1))
    ELSE NoReturn("unwrap")

\* LibRead::immutable_identifier: url.split('/').last().unwrap()
LibRead_immutable_identifier(url) == Ok(LastSegment(url))

\* LightNovelWorld::immutable_identifier: url.rsplitn(3, '/'), the first
\* piece when it is not empty, the second otherwise.
LightNovelWorld_immutable_identifier(url) ==
    IF LastSegment(url) # <<>> THEN Ok(LastSegment(url))
    ELSE IF "/" \in {url[i] : i \in 1..Len(url)}
    THEN Ok(LastSegment(BeforeLastSlash(url)))
    ELSE Err(ParseError("Could not find a proper identifier."))

\* An identifier taken from the page the instance fetched.
immutable_identifier_FromPage(k, inst) == Ok(<<inst.page.title>>)

\* Backend::immutable_identifier of an instance of kind k.
immutable_identifier(k, inst) ==
    IF k = "RoyalRoad" THEN RoyalRoad_immutable_identifier(inst.url)
    ELSE IF k = "FreeWebNovel" THEN FreeWebNovel_immutable_identifier(inst.url)
    ELSE IF k = "LibRead" THEN LibRead_immutable_identifier(inst.url)
    ELSE LightNovelWorld_immutable_identifier(inst.url)

\* The urls of fictions: the start of the kind, then up to MaxTail tokens.
FictionUrls(k) == {UrlStart(k) \o tail : tail \in Strs(UrlTokens, MaxTail) \ {<<>>}}

\* The pages an instance may have fetched.
FictionPages == {[title |-> "A"], [title |-> "B"]}

InitIdent ==
    /\ GetIdle
    /\ BackendIdle
    /\ CodecIdle
    /\ DispIdle
    /\ OrderIdle
    /\ FibIdle
    /\ skind \in Kinds
    /\ surl \in FictionUrls(skind)
    /\ spage \in FictionPages
    /\ ssite = <<>>
    /\ sbuild = "debug"
    /\ sop = "none"
    /\ spc = "idle"
    /\ sidx = 0
    /\ scnt = [wrapped |-> FALSE, n |-> 0]
    /\ scur = [p |-> 0, entries |-> [len |-> 0, flaw |-> "none"]]
    /\ sacc = <<>>
    /\ sreqs = <<>>
    /\ slist = [kind |-> "none"]
    /\ scount = [kind |-> "none"]
    /\ sident = [kind |-> "none"]
    /\ stwin = [page |-> <<>>, ident |-> [kind |-> "none"]]

\* immutable_identifier() is called on the instance.
CallIdentifier ==
    /\ sident.kind = "none"
    /\ sident' = immutable_identifier(skind, [url |-> surl, page |-> spage])
    /\ UNCHANGED <<skind, surl, spage, ssite, sbuild, sop, spc, sidx, scnt, scur, sacc,
                   sreqs, slist, scount, stwin>>
    /\ UNCHANGED <<getVars, backendVars, codecVars, dispVars, orderVars, fibVars>>

\* immutable_identifier() is called on a second instance, made from the
\* same url when the site served another page.
CallTwinIdentifier ==
    /\ stwin.ident.kind = "none"
    /\ \E page \in FictionPages \ {spage} :
          stwin' = [page |-> page,
                    ident |-> immutable_identifier(skind, [url |-> surl, page |-> page])]
    /\ UNCHANGED <<skind, surl, spage, ssite, sbuild, sop, spc, sidx, scnt, scur, sacc,
                   sreqs, slist, scount, sident>>
    /\ UNCHANGED <<getVars, backendVars, codecVars, dispVars, orderVars, fibVars>>

NextIdent == CallIdentifier \/ CallTwinIdentifier

SpecIdent == InitIdent /\ [][NextIdent]_vars

-----------------------------------------------------------------------------
(* Properties of immutable_identifier *)

\* What follows the fixed start in the url of the instance.
UrlTail == SubSeq(surl, Len(UrlStart(skind)) + 1, Len(surl))

AllIn(toks, cls) == \A i \in 1..Len(toks) : toks[i] \in cls

SlugTokens == {"a", "1", "-"}

\* The identifier of a fiction url that is exactly the documented form of
\* its kind: <id>/<slug> for RoyalRoad, <slug>.html for FreeWebNovel, <slug>
\* for LibRead and <slug> or <slug>/ for LightNovelWorld. No identifier is
\* expected of another url.
ExpectedIdentifiers(k, tail) ==
    IF k = "RoyalRoad"
    THEN {SubSeq(tail, j + 1, Len(tail)) \o <<"-">> \o SubSeq(tail, 1, j - 1) :
            j \in {i \in 2..(Len(tail) - 1) :
                     /\ tail[i] = "/"
                     /\ AllIn(SubSeq(tail, 1, i - 1), {"1"})
                     /\ AllIn(SubSeq(tail, i + 1, Len(tail)), SlugTokens)}}
    ELSE IF k = "FreeWebNovel"
    THEN IF Len(tail) >= 2 /\ tail[Len(tail)] = ".html"
            /\ AllIn(SubSeq(tail, 1, Len(tail) - 1), SlugTokens)
         THEN {SubSeq(tail, 1, Len(tail) - 1)} ELSE {}
    ELSE IF k = "LibRead"
    THEN IF AllIn(tail, SlugTokens) /\ tail[1] \in {"a", "1"} THEN {tail} ELSE {}
    ELSE IF AllIn(tail, SlugTokens) THEN {tail}
    ELSE IF Len(tail) >= 2 /\ tail[Len(tail)] = "/"
            /\ AllIn(SubSeq(tail, 1, Len(tail) - 1), SlugTokens)
         THEN {SubSeq(tail, 1, Len(tail) - 1)} ELSE {}

\* C22: immutable_identifier() makes no request; an instance and a second
\* instance with the same url and another page return the same; and for a
\* url of the documented form the identifier is the slug (for RoyalRoad
\* the slug, '-', the fiction id).
C22_IdentifierFromUrlOnly ==
    /\ GetIdle
    /\ sreqs = <<>>
    /\ (sident.kind # "none" /\ stwin.ident.kind # "none") => sident = stwin.ident
    /\ \A e \in ExpectedIdentifiers(skind, UrlTail) :
          /\ sident.kind # "none" => sident = Ok(e)
          /\ stwin.ident.kind # "none" => stwin.ident = Ok(e)

C22_Witness ==
    /\ skind = "RoyalRoad"
    /\ UrlTail = <<"1", "/", "a", "-">>
    /\ sident = Ok(<<"a", "-", "-", "1">>)
    /\ stwin.page # spage
    /\ stwin.ident = sident

\* The url matches the pattern of the kind (get_backend_regexps), which is
\* not anchored at its end.
UrlAccepted(k, tail) ==
    IF k = "RoyalRoad"
    THEN \E i \in 2..(Len(tail) - 1) :
            /\ AllIn(SubSeq(tail, 1, i - 1), {"1"})
            /\ tail[i] = "/"
            /\ tail[i + 1] \in SlugTokens
    ELSE IF k = "FreeWebNovel"
    THEN \E i \in 2..Len(tail) :
            /\ AllIn(SubSeq(tail, 1, i - 1), SlugTokens)
            /\ tail[i] = ".html"
    ELSE IF k = "LibRead" THEN tail[1] \in {"a", "1"}
    ELSE tail[1] \in SlugTokens

\* C29: on an instance whose url its kind accepts, immutable_identifier()
\* returns an identifier that is not empty, or a ParseError.
C29_IdentifierOrParseError ==
    (UrlAccepted(skind, UrlTail) /\ sident.kind # "none") =>
        \/ sident.kind = "ok" /\ sident.value # <<>>
        \/ sident.kind = "err" /\ sident.error.type = "ParseError"

-----------------------------------------------------------------------------
(* utils::get: a request that fails in transport *)

\* The last request of the call failed in transport.
SendFailed == requests > 0 /\ lastStatus = 0

\* C23: once a request of get() has failed in transport, after any number
\* of 429 responses and waits, the call has returned the network error, and
\* no request and no wait follows.
C23_TransportErrorNotRetried ==
    /\ [](SendFailed => (gpc = "done" /\ result = "err_net"))
    /\ [][SendFailed => (requests' = requests /\ waits' = waits)]_vars

C23_Witness ==
    /\ SendFailed
    /\ n429 = 2
    /\ waits = <<1, 1>>
    /\ requests = 3
    /\ result = "err_net"

-----------------------------------------------------------------------------
(* utils.rs: FibonacciIterator with the width of usize *)

\* A usize of 64 bits, as four limbs of 16 bits, the lowest first.
LimbBase == 2^16

Usize(n) == <<n, 0, 0, 0>>

\* a + b limb by limb: the sum modulo 2^64 and whether it overflowed.
RECURSIVE AddLimbs(_, _, _)
AddLimbs(a, b, carry) ==
    IF a = <<>> THEN [sum |-> <<>>, overflow |-> carry = 1]
    ELSE LET t == Head(a) + Head(b) + carry
             rest == AddLimbs(Tail(a), Tail(b), t \div LimbBase)
         IN [sum |-> <<t % LimbBase>> \o rest.sum, overflow |-> rest.overflow]

\* FibonacciIterator::new(), with what the iterator has yielded so far: how
\* many values, and the last three of them.
FibonacciIterator_fresh ==
    [next |-> Usize(1), current |-> Usize(0), calls |-> 0, yielded |-> <<>>,
     panicked |-> FALSE]

\* Iterator::next: previous = current; current = next; next += previous;
\* Some(previous). The addition panics on overflow where overflow is
\* checked, and wraps where it is not.
FibonacciIterator_next(it, build) ==
    LET previous == it.current
        added == AddLimbs(it.next, previous, 0)
    IN
    IF added.overflow /\ build = "debug"
    THEN [it EXCEPT !.current = it.next, !.calls = @ + 1, !.panicked = TRUE]
    ELSE [next |-> added.sum,
          current |-> it.next,
          calls |-> it.calls + 1,
          yielded |-> IF Len(it.yielded) < 3 THEN Append(it.yielded, previous)
                      ELSE Append(Tail(it.yielded), previous),
          panicked |-> FALSE]

InitFib ==
    /\ GetIdle
    /\ BackendIdle
    /\ CodecIdle
    /\ DispIdle
    /\ OrderIdle
    /\ NoInstance
    /\ sbuild \in {"debug", "release"}
    /\ fits = <<>>

\* FibonacciIterator::new(): one more iterator.
FibNew ==
    /\ Len(fits) < 2
    /\ fits' = Append(fits, FibonacciIterator_fresh)
    /\ UNCHANGED <<getVars, backendVars, codecVars, dispVars, orderVars, siteVars>>

\* next() on one of the iterators.
FibNext ==
    /\ \E i \in DOMAIN fits :
          /\ ~fits[i].panicked
          /\ fits[i].calls < MaxCalls
          /\ fits' = [fits EXCEPT ![i] = FibonacciIterator_next(fits[i], sbuild)]
    /\ UNCHANGED <<getVars, backendVars, codecVars, dispVars, orderVars, siteVars>>

NextFib == FibNew \/ FibNext

SpecFib == InitFib /\ [][NextFib]_vars

-----------------------------------------------------------------------------
(* Properties of FibonacciIterator *)

\* The first ten values of the sequence.
FirstTen == <<0, 1, 1, 2, 3, 5, 8, 13, 21, 34>>

\* C25: every call of next() on a FibonacciIterator returns a value; the
\* first ten values are 0, 1, 1, 2, 3, 5, 8, 13, 21, 34; every later value
\* is the sum of the two before it; and this holds of each iterator
\* whatever has been asked of another.
C25_FibonacciForEver ==
    \A i \in DOMAIN fits :
        LET it == fits[i]
            n == Len(it.yielded)
        IN
        /\ ~it.panicked
        /\ (it.calls >= 1 /\ it.calls <= 10) => it.yielded[n] = Usize(FirstTen[it.calls])
        /\ it.calls >= 3 =>
              LET two == AddLimbs(it.yielded[n - 2], it.yielded[n - 1], 0) IN
              ~two.overflow /\ it.yielded[n] = two.sum

-----------------------------------------------------------------------------
(* lib.rs: from_str on texts whose content holds lines that look like a header *)

\* The header of these texts: every field, a timestamp or none, and a
\* metadata block of one entry or none.
BodyTextHeaders ==
    {<<<<COMMENT_OPEN>>, FieldLine("index", <<"7">>), FieldLine("chapter_url", <<"u">>),
       FieldLine("fiction_url", <<"f">>)>> \o p \o <<<<"metadata", ":">>>> \o b
          \o <<<<COMMENT_CLOSE>>>> :
        p \in {<<FieldLine("published_at", <<"not_found">>)>>,
               <<FieldLine("published_at", to_rfc3339(7))>>},
        b \in {<<>>, <<<<" ", " ">> \o FieldLine("k", <<"v">>)>>}}

\* The lines of the content: text, and lines as a header has them.
ContentLinePool ==
    {<<"p">>,
     <<COMMENT_OPEN>>,
     FieldLine("index", <<"9">>),
     <<" ", " ">> \o FieldLine("k", <<"w">>),
     <<COMMENT_CLOSE>>}

BodyTexts ==
    {JoinLines(h \o <<<<DIV_OPEN>>>> \o c \o <<<<DIV_CLOSE>>>>) :
        h \in BodyTextHeaders, c \in Strs(ContentLinePool, MaxBodyLines)}

InitParseBody ==
    /\ GetIdle
    /\ BackendIdle
    /\ DispIdle
    /\ SiteIdle
    /\ FibIdle
    /\ OrderIdle
    /\ chap = <<>>
    /\ cpc = "encoded"
    /\ text \in BodyTexts
    /\ decoded = [kind |-> "none"]

SpecParseBody == InitParseBody /\ [][NextParse]_vars

\* The lines of a text up to the "-->" line that closes its header.
ThroughHeader(s) ==
    LET ls == Lines(s)
        close == CHOOSE i \in 1..Len(ls) :
                    ls[i] = <<COMMENT_CLOSE>> /\ \A j \in 1..(i - 1) : ls[j] # <<COMMENT_CLOSE>>
    IN SubSeq(ls, 1, close)

\* How many times token t occurs in a sequence of tokens.
Occurrences(toks, t) == Cardinality({i \in 1..Len(toks) : toks[i] = t})

\* C27: what from_str reads as index, chapter_url, fiction_url, published_at
\* and metadata is what it reads of the text cut after the "-->" line of the
\* header (an empty content div added), whatever lines follow, and the
\* "key: value" lines that follow are in the content.
C27_HeaderStrictlyDelimited ==
    cpc = "decoded" =>
        LET alone == from_str(JoinLines(ThroughHeader(text)
                                          \o <<<<DIV_OPEN>>, <<DIV_CLOSE>>>>))
        IN
        /\ decoded.kind = "ok"
        /\ alone.kind = "ok"
        /\ decoded.value.index = alone.value.index
        /\ decoded.value.chapter_url = alone.value.chapter_url
        /\ decoded.value.fiction_url = alone.value.fiction_url
        /\ decoded.value.published_at = alone.value.published_at
        /\ decoded.value.metadata = alone.value.metadata
        /\ Occurrences(decoded.value.content, "index") = Occurrences(text, "index") - 1
        /\ Occurrences(decoded.value.content, "k")
              = Occurrences(text, "k") - Occurrences(JoinLines(ThroughHeader(text)), "k")

\* C28: from_str returns for every text, a Chapter or a ChapterParseError.
C28_AlwaysAValue ==
    cpc = "decoded" => (decoded.kind = "ok" \/ IsParseError(decoded))

-----------------------------------------------------------------------------
(* Backends::new and the placeholder variant *)

\* C30: Backends::new(url) returns an error or a backend of RoyalRoad,
\* LibRead or FreeWebNovel, and calls no constructor of Backends::Dumb.
C30_NeverDumb ==
    dvia = "Backends::new" =>
        /\ \A i \in DOMAIN dctors : dctors[i] # "Dumb"
        /\ dpc = "done" =>
              \/ dret.kind = "err"
              \/ /\ dret.kind = "ok"
                 /\ dret.value.kind \in {"RoyalRoad", "LibRead", "FreeWebNovel"}

C30_Witness ==
    /\ dvia = "Backends::new"
    /\ dpc = "done"
    /\ durl = <<OTHER_PIECE, FW_PIECE>>
    /\ dwalk = <<"Dumb", "RoyalRoad", "LibRead", "FreeWebNovel">>
    /\ dret = Ok(Instance("FreeWebNovel", durl))

====
